---- MODULE Spec2Model ----
(***************************************************************************)
(* Model of sql_helper's text parser (src/src/parsing/text_parser.py), of  *)
(* the type mapping of its database inspector and of query generation      *)
(* (src/src/backend).                                                      *)
(*                                                                         *)
(* Texts are TLA+ strings over ASCII.  Positions are 1-based; the `end` of *)
(* a match is the position after its last character (Python's 0-based      *)
(* start/end shifted by one).  Optional values are <<>> (None) or <<v>>.   *)
(* Scores are kept in thousandths (1000 = 1.0) so that halving is exact.   *)
(***************************************************************************)
EXTENDS Integers, Sequences, FiniteSets, TLC

-----------------------------------------------------------------------------
(* Characters and str methods                                              *)

Ch(s, i) == SubSeq(s, i, i)

CharsOf(s) == {Ch(s, i) : i \in 1..Len(s)}

LowerLetters == "abcdefghijklmnopqrstuvwxyz"

UpperLetters == "ABCDEFGHIJKLMNOPQRSTUVWXYZ"

\* \w of the re module, restricted to ASCII
WordChars == CharsOf(LowerLetters) \cup CharsOf(UpperLetters) \cup CharsOf("0123456789_")

\* \s of the re module and the default set of str.strip / str.split
SpaceChars == {" ", "\n", "\t", "\r", "\f"}

\* the character c with the letters of `from` replaced by those of `to`
MapCh(c, from, to) ==
    IF \E i \in 1..Len(from) : Ch(from, i) = c
    THEN Ch(to, CHOOSE i \in 1..Len(from) : Ch(from, i) = c) ELSE c

UpperCh(c) == MapCh(c, LowerLetters, UpperLetters)

LowerCh(c) == MapCh(c, UpperLetters, LowerLetters)

Min(S) == CHOOSE x \in S : \A y \in S : x <= y

Max(S) == CHOOSE x \in S : \A y \in S : y <= x

\* str.upper / str.lower over the positions a..b.  Loops over the characters
\* of a text are written as a recursion that halves the range, the left half
\* first, which keeps the evaluation shallow on long texts.
RECURSIVE MapRange(_, _, _, _)
MapRange(s, a, b, up) ==
    IF a > b THEN ""
    ELSE IF a = b THEN (IF up THEN UpperCh(Ch(s, a)) ELSE LowerCh(Ch(s, a)))
    ELSE MapRange(s, a, (a + b) \div 2, up) \o MapRange(s, (a + b) \div 2 + 1, b, up)

upper(s) == MapRange(s, 1, Len(s), TRUE)

lower(s) == MapRange(s, 1, Len(s), FALSE)

\* first position >= i whose character is not in C (Len(s)+1 if none)
SkipWhile(s, i, C) ==
    IF i > Len(s) THEN i
    ELSE CHOOSE j \in i..(Len(s) + 1) :
            /\ (j > Len(s) \/ Ch(s, j) \notin C)
            /\ \A k \in i..(j - 1) : Ch(s, k) \in C

\* first position >= i whose character is in C (Len(s)+1 if none)
SkipUntil(s, i, C) ==
    IF i > Len(s) THEN i
    ELSE CHOOSE j \in i..(Len(s) + 1) :
            /\ (j > Len(s) \/ Ch(s, j) \in C)
            /\ \A k \in i..(j - 1) : Ch(s, k) \notin C

\* last position <= i whose character is not in C (0 if none)
SkipBack(s, i, C) ==
    IF i < 1 THEN i
    ELSE CHOOSE j \in 0..i :
            /\ (j = 0 \/ Ch(s, j) \notin C)
            /\ \A k \in (j + 1)..i : Ch(s, k) \in C

\* str.strip(chars)
strip_chars(s, C) == SubSeq(s, SkipWhile(s, 1, C), SkipBack(s, Len(s), C))

strip(s) == strip_chars(s, SpaceChars)

\* s[i:] starts with lit
StartsAt(s, i, lit) ==
    /\ i >= 1
    /\ i + Len(lit) - 1 <= Len(s)
    /\ SubSeq(s, i, i + Len(lit) - 1) = lit

\* re.IGNORECASE literal at position i; LIT is given in upper case
LitAt(s, i, LIT) ==
    /\ i >= 1
    /\ i + Len(LIT) - 1 <= Len(s)
    /\ \A k \in 1..Len(LIT) : UpperCh(Ch(s, i + k - 1)) = Ch(LIT, k)

\* str.find(sub, start): 1-based position of the first occurrence at or
\* after `start`, 0 where Python returns -1
find(s, sub, start) ==
    LET hits == {j \in start..(Len(s) - Len(sub) + 1) : StartsAt(s, j, sub)}
    IN  IF hits = {} THEN 0 ELSE Min(hits)

\* sub in s
Contains(s, sub) == \E j \in 1..(Len(s) - Len(sub) + 1) : StartsAt(s, j, sub)

\* str.split(sep): the pieces between the occurrences of the 1-character sep
RECURSIVE split_on(_, _)
split_on(s, sep) ==
    LET j == SkipUntil(s, 1, {sep})
    IN  IF j > Len(s) THEN <<s>>
        ELSE <<SubSeq(s, 1, j - 1)>> \o split_on(SubSeq(s, j + 1, Len(s)), sep)

\* str.split(): the maximal runs of non-whitespace
RECURSIVE split_ws(_)
split_ws(s) ==
    LET a == SkipWhile(s, 1, SpaceChars)
        b == SkipUntil(s, a, SpaceChars)
    IN  IF a > Len(s) THEN <<>>
        ELSE <<SubSeq(s, a, b - 1)>> \o split_ws(SubSeq(s, b, Len(s)))

\* sep.join(parts)
RECURSIVE join(_, _)
join(sep, parts) ==
    IF parts = <<>> THEN ""
    ELSE IF Len(parts) = 1 THEN parts[1]
    ELSE parts[1] \o sep \o join(sep, Tail(parts))

-----------------------------------------------------------------------------
(* Compiled patterns of TextParser.__init__ and the patterns compiled in   *)
(* the methods.  A match is [start, end, groups]; NoMatch has start = 0.   *)
(* A pattern applied to a text is the function that gives, for each        *)
(* position of the text, the match that begins there (or NoMatch).  The    *)
(* pieces of a pattern give the position after the piece, 0 when the piece *)
(* does not match or the pieces before it did not.                         *)

NoMatch == [start |-> 0, end |-> 0, groups |-> <<>>]

Match(a, b, g) == [start |-> a, end |-> b, groups |-> g]

\* (?:lit1|lit2|...) of literals of which at most one matches at a position,
\* with re.IGNORECASE; the literals are given in upper case
AnyLit(s, p, LITS) ==
    IF \E l \in LITS : LitAt(s, p, l)
    THEN p + Len(CHOOSE l \in LITS : LitAt(s, p, l)) ELSE 0

\* one literal
Lit(s, p, LIT) == AnyLit(s, p, {LIT})

\* one or more: the run from p to q is not empty
OneOrMore(p, q) == IF p > 0 /\ q > p THEN q ELSE 0

\* \s*
Spaces(s, p) == IF p > 0 THEN SkipWhile(s, p, SpaceChars) ELSE 0

\* \s+
Spaces1(s, p) == OneOrMore(p, Spaces(s, p))

\* \w+ ; the run is maximal, a shorter one is followed by a word character
Word(s, p) == OneOrMore(p, IF p > 0 THEN SkipWhile(s, p, WordChars) ELSE 0)

\* the match from p to e whose one group is s[n..m-1]
Group(s, p, n, m, e) == IF e = 0 THEN NoMatch ELSE Match(p, e, <<SubSeq(s, n, m - 1)>>)

\* (\w+) at n ends the match that began at p
NameAt(s, p, n) == Group(s, p, n, Word(s, n), Word(s, n))

TableMarkers == {"TABELA:", "TABLE:"}

FieldMarkers == {"CAMPOS:", "FIELDS:", "COLUNAS:", "COLUMNS:"}

\* self.table_pattern: (?:tabela|table):\s*(\w+)
table_pattern(s) ==
    [p \in 1..Len(s) |-> NameAt(s, p, Spaces(s, AnyLit(s, p, TableMarkers)))]

\* \s*(.+) from a on, where the field marker ended.  \s* is greedy and gives
\* characters back until `.` (anything but a newline) can match; the group
\* runs to the end of that line.
RestOfLine(s, p, a) ==
    LET n == Spaces(s, a)
        g == IF n <= Len(s) THEN n ELSE SkipBack(s, Len(s), {"\n"})
    IN  IF a = 0 \/ g < a THEN NoMatch
        ELSE Group(s, p, g, SkipUntil(s, g, {"\n"}), SkipUntil(s, g, {"\n"}))

\* self.field_pattern: (?:campos|fields|colunas|columns):\s*(.+)
field_pattern(s) ==
    [p \in 1..Len(s) |->
        RestOfLine(s, p, AnyLit(s, p, FieldMarkers))]

\* a pattern that finds no "fk -> table" annotation
NoReference(s) == [p \in 1..Len(s) |-> NoMatch]

\* self.relationship_pattern: fk\s*->\s*(\w+)
relationship_pattern(s) ==
    [p \in 1..Len(s) |->
        NameAt(s, p, Spaces(s, Lit(s, Spaces(s, Lit(s, p, "FK")), "->")))]

\* (\w+)\s*\( from n on
CreateTableName(s, p, n) ==
    Group(s, p, n, Word(s, n), Lit(s, Spaces(s, Word(s, n)), "("))

\* self.create_table_pattern: CREATE\s+TABLE\s+(\w+)\s*\(
create_table_pattern(s) ==
    [p \in 1..Len(s) |->
        CreateTableName(s, p, Spaces1(s, Lit(s, Spaces1(s, Lit(s, p, "CREATE")), "TABLE")))]

\* self.markdown_table_pattern: #+\s*(?:tabela|table):\s*(\w+)
markdown_table_pattern(s) ==
    [p \in 1..Len(s) |->
        NameAt(s, p, Spaces(s, AnyLit(s, Spaces(s, OneOrMore(p, SkipWhile(s, p, {"#"}))),
                                      TableMarkers)))]

\* (\w+)\.(\w+) from b on, after the arrow; the first two groups ended at
\* e1 and e2
RelTarget(s, p, e1, e2, b) ==
    LET e3 == Word(s, b)
        e4 == Word(s, Lit(s, e3, "."))
    IN  IF e4 = 0 THEN NoMatch
        ELSE Match(p, e4, <<SubSeq(s, p, e1 - 1), SubSeq(s, e1 + 1, e2 - 1),
                            SubSeq(s, b, e3 - 1), SubSeq(s, e3 + 1, e4 - 1)>>)

\* \.(\w+)\s*->\s* from e1 on, after the first name
RelSource(s, p, e1) ==
    LET e2 == Word(s, Lit(s, e1, "."))
    IN  RelTarget(s, p, e1, e2, Spaces(s, Lit(s, Spaces(s, e2), "->")))

\* rel_pattern of _extract_relationships: (\w+)\.(\w+)\s*->\s*(\w+)\.(\w+)
rel_pattern(s) == [p \in 1..Len(s) |-> RelSource(s, p, Word(s, p))]

\* db_pattern of _extract_metadata: (?:banco|database|db):\s*(\w+)
db_pattern(s) ==
    [p \in 1..Len(s) |-> NameAt(s, p, Spaces(s, AnyLit(s, p, {"BANCO:", "DATABASE:", "DB:"})))]

\* the positions at or after p where the pattern matches
MatchStarts(matches, p) == {q \in DOMAIN matches : q >= p /\ matches[q].start # 0}

\* pattern.search(s): the leftmost match
search(matches) ==
    IF MatchStarts(matches, 1) = {} THEN NoMatch ELSE matches[Min(MatchStarts(matches, 1))]

\* the matches of pattern.finditer(s) that begin at or after p: the leftmost
\* one, then those after its end
RECURSIVE FindIterFrom(_, _)
FindIterFrom(matches, p) ==
    IF MatchStarts(matches, p) = {} THEN <<>>
    ELSE <<matches[Min(MatchStarts(matches, p))]>>
            \o FindIterFrom(matches, matches[Min(MatchStarts(matches, p))].end)

\* list(pattern.finditer(s)): the non-overlapping matches, left to right
finditer(matches) == FindIterFrom(matches, 1)

-----------------------------------------------------------------------------
(* Field parsing, general dialect                                          *)

Field(n, t, pk, fk, nl, ref) ==
    [name |-> n, type |-> t, primary_key |-> pk, foreign_key |-> fk,
     nullable |-> nl, reference |-> ref]

\* a step that splits at every comma, whatever the depth
SplitAtEveryComma(st, s, i) ==
    IF Ch(s, i) = ","
    THEN [st EXCEPT !.fields = Append(@, strip(st.current_field)),
                    !.current_field = ""]
    ELSE [st EXCEPT !.current_field = @ \o Ch(s, i)]

\* one iteration of the loop of _smart_split_fields, on the character at i
SmartSplitStep(st, s, i) ==
    IF Ch(s, i) = "("
    THEN [st EXCEPT !.paren_depth = @ + 1, !.current_field = @ \o Ch(s, i)]
    ELSE IF Ch(s, i) = ")"
    THEN [st EXCEPT !.paren_depth = @ - 1, !.current_field = @ \o Ch(s, i)]
    ELSE IF Ch(s, i) = "," /\ st.paren_depth = 0
    THEN [st EXCEPT !.fields = Append(@, strip(st.current_field)),
                    !.current_field = ""]
    ELSE [st EXCEPT !.current_field = @ \o Ch(s, i)]

\* the loop of _smart_split_fields over the positions a..b, from state st;
\* the state after the left half is computed before the right half begins
RECURSIVE SmartSplitRange(_, _, _, _)
SmartSplitRange(s, a, b, st) ==
    IF a > b THEN st
    ELSE IF a = b THEN SmartSplitStep(st, s, a)
    ELSE LET left == SmartSplitRange(s, a, (a + b) \div 2, st)
         IN  IF left.paren_depth \in Int
             THEN SmartSplitRange(s, (a + b) \div 2 + 1, b, left) ELSE st

_smart_split_fields(fields_str) ==
    LET st == SmartSplitRange(fields_str, 1, Len(fields_str),
                              [fields |-> <<>>, current_field |-> "", paren_depth |-> 0])
    IN  IF st.current_field # "" THEN Append(st.fields, strip(st.current_field))
        ELSE st.fields

\* DatabaseInspector.TYPE_MAPPING: the canonical name of each known type
TYPE_MAPPING ==
    ("INT" :> "int") @@ ("INTEGER" :> "int") @@ ("BIGINT" :> "bigint")
    @@ ("SMALLINT" :> "smallint") @@ ("TINYINT" :> "tinyint")
    @@ ("DECIMAL" :> "decimal") @@ ("NUMERIC" :> "numeric") @@ ("FLOAT" :> "float")
    @@ ("DOUBLE" :> "double") @@ ("REAL" :> "real")
    @@ ("VARCHAR" :> "varchar") @@ ("CHAR" :> "char") @@ ("TEXT" :> "text")
    @@ ("LONGTEXT" :> "text") @@ ("MEDIUMTEXT" :> "text") @@ ("TINYTEXT" :> "text")
    @@ ("NVARCHAR" :> "varchar") @@ ("NCHAR" :> "char")
    @@ ("DATE" :> "date") @@ ("DATETIME" :> "datetime") @@ ("TIMESTAMP" :> "timestamp")
    @@ ("TIME" :> "time")
    @@ ("BOOLEAN" :> "boolean") @@ ("BOOL" :> "boolean") @@ ("BIT" :> "boolean")
    @@ ("JSON" :> "json") @@ ("JSONB" :> "json") @@ ("BLOB" :> "blob")
    @@ ("BINARY" :> "binary") @@ ("UUID" :> "uuid")

\* DatabaseInspector._normalize_type: re.match(r"^([A-Z]+)", sql_type.upper())
\* and the lookup of the matched letters, the type in lower case otherwise
_normalize_type(sql_type) ==
    LET type_name == SubSeq(upper(sql_type), 1,
                            SkipWhile(upper(sql_type), 1, CharsOf(UpperLetters)) - 1)
    IN  IF type_name # "" /\ type_name \in DOMAIN TYPE_MAPPING
        THEN TYPE_MAPPING[type_name]
        ELSE lower(sql_type)

\* a normalisation of a declared type of the parser by the type mapping
CanonicalType(type_str) == _normalize_type(strip(type_str))

\* \bKW\b at position i, with re.IGNORECASE; KW in upper case, beginning
\* and ending with a word character
WordAt(s, KW, i) ==
    /\ LitAt(s, i, KW)
    /\ (i = 1 \/ Ch(s, i - 1) \notin WordChars)
    /\ (i + Len(KW) > Len(s) \/ Ch(s, i + Len(KW)) \notin WordChars)

\* re.sub(r'\b' + keyword + r'\b', '', s, flags=re.IGNORECASE), from i on
RECURSIVE RemoveWordFrom(_, _, _)
RemoveWordFrom(s, KW, i) ==
    LET hits == {j \in i..Len(s) : WordAt(s, KW, j)}
    IN  IF hits = {} THEN SubSeq(s, i, Len(s))
        ELSE SubSeq(s, i, Min(hits) - 1) \o RemoveWordFrom(s, KW, Min(hits) + Len(KW))

keywords_to_remove == <<"pk", "primary key", "fk", "foreign key", "nullable", "not null">>

\* the prefixes of a type that is left as it is
SqlTypePrefixes == {"VARCHAR", "CHAR", "NUMBER", "DATE", "INT"}

\* the loop of _normalize_field_type over keywords_to_remove, from the k-th
RECURSIVE NormalizeLoop(_, _, _)
NormalizeLoop(type_str, type_lower, k) ==
    IF k > Len(keywords_to_remove) THEN type_str
    ELSE IF /\ Contains(type_lower, keywords_to_remove[k])
            /\ ~\E prefix \in SqlTypePrefixes : StartsAt(upper(type_str), 1, prefix)
         THEN NormalizeLoop(RemoveWordFrom(type_str, upper(keywords_to_remove[k]), 1),
                            type_lower, k + 1)
         ELSE NormalizeLoop(type_str, type_lower, k + 1)

\* _normalize_field_type after type_str.strip()
NormalizeStripped(type_str) ==
    join(" ", split_ws(NormalizeLoop(type_str, lower(type_str), 1)))

_normalize_field_type(type_str) ==
    IF NormalizeStripped(strip(type_str)) # "" THEN NormalizeStripped(strip(type_str))
    ELSE "unknown"

\* re.match(r'(\w+)\s*\((.+)\)\s*$', field_str): the closing parenthesis is
\* the last non-blank character and the group holds no newline
match_with_parens(field_str) ==
    LET e1 == SkipWhile(field_str, 1, WordChars)
        a  == SkipWhile(field_str, e1, SpaceChars)
        z  == SkipBack(field_str, Len(field_str), SpaceChars)
    IN  IF /\ e1 > 1
           /\ StartsAt(field_str, a, "(")
           /\ z > a + 1
           /\ Ch(field_str, z) = ")"
           /\ ~Contains(SubSeq(field_str, a + 1, z - 1), "\n")
        THEN Match(1, Len(field_str) + 1,
                   <<SubSeq(field_str, 1, e1 - 1), SubSeq(field_str, a + 1, z - 1)>>)
        ELSE NoMatch

\* re.split(r'\s+', field_str, maxsplit=1)
split_once(field_str) ==
    LET a == SkipUntil(field_str, 1, SpaceChars)
    IN  IF a > Len(field_str) THEN <<field_str>>
        ELSE <<SubSeq(field_str, 1, a - 1),
               SubSeq(field_str, SkipWhile(field_str, a, SpaceChars), Len(field_str))>>

\* _parse_single_field, "name (type, constraints)": the flags and the
\* reference are read from the text in the parentheses
FieldWithParens(field_name, field_type_raw) ==
    LET type_lower     == lower(field_type_raw)
        is_primary_key == Contains(type_lower, "pk") \/ Contains(type_lower, "primary key")
        is_foreign_key == Contains(type_lower, "fk") \/ Contains(type_lower, "foreign key")
        is_nullable    == Contains(type_lower, "null") /\ ~Contains(type_lower, "not null")
        fk_match       == search(relationship_pattern(field_type_raw))
    IN  Field(field_name,
              _normalize_field_type(field_type_raw),
              is_primary_key,
              is_foreign_key,
              IF is_nullable \/ is_primary_key \/ is_foreign_key THEN is_nullable ELSE TRUE,
              IF fk_match.start # 0 THEN <<fk_match.groups[1]>> ELSE <<>>)

\* _parse_single_field, "name type" or a bare name
FieldWithoutParens(field_str, parts) ==
    IF Len(parts) = 2
    THEN Field(strip(parts[1]), _normalize_field_type(strip(parts[2])),
               FALSE, FALSE, TRUE, <<>>)
    ELSE Field(strip(field_str), "unknown", FALSE, FALSE, TRUE, <<>>)

_parse_single_field(field_str) ==
    LET match == match_with_parens(field_str)
    IN  IF match.start # 0
        THEN FieldWithParens(match.groups[1], strip(match.groups[2]))
        ELSE FieldWithoutParens(field_str, split_once(field_str))

\* a loop over the parts that parses the empty ones too
RECURSIVE ParsesEveryPart(_, _)
ParsesEveryPart(field_parts, k) ==
    IF k > Len(field_parts) THEN <<>>
    ELSE <<_parse_single_field(strip(field_parts[k]))>>
            \o ParsesEveryPart(field_parts, k + 1)

\* the loop of _parse_fields over the parts, from the k-th
RECURSIVE ParseParts(_, _)
ParseParts(field_parts, k) ==
    IF k > Len(field_parts) THEN <<>>
    ELSE (IF strip(field_parts[k]) = "" THEN <<>>
          ELSE <<_parse_single_field(strip(field_parts[k]))>>)
            \o ParseParts(field_parts, k + 1)

_parse_fields(fields_str) == ParseParts(_smart_split_fields(strip(fields_str)), 1)

-----------------------------------------------------------------------------
(* Field parsing, SQL DDL dialect                                          *)

\* parts[0].strip('`"[]'); the backquote cannot be written in a TLA+ string
\* and is outside the alphabet of the modelled inputs
NameQuoteChars == {"\"", "[", "]"}

\* one piece of sql_block.split(','), stripped: a column when it has a name
\* and a type
SqlColumn(line, parts, line_upper) ==
    IF line # "" /\ Len(parts) >= 2
    THEN <<Field(strip_chars(parts[1], NameQuoteChars),
                 upper(parts[2]),
                 Contains(line_upper, "PRIMARY KEY"),
                 Contains(line_upper, "FOREIGN KEY") \/ Contains(line_upper, "REFERENCES"),
                 ~Contains(line_upper, "NOT NULL"),
                 <<>>)>>
    ELSE <<>>

\* the loop of _parse_sql_fields over the pieces, from the k-th
RECURSIVE SqlLines(_, _)
SqlLines(lines, k) ==
    IF k > Len(lines) THEN <<>>
    ELSE SqlColumn(strip(lines[k]), split_ws(strip(lines[k])), upper(strip(lines[k])))
            \o SqlLines(lines, k + 1)

_parse_sql_fields(sql_block) == SqlLines(split_on(sql_block, ","), 1)

-----------------------------------------------------------------------------
(* Format detection and table extraction                                   *)

Table(n, fs) == [name |-> n, fields |-> fs]

\* a detection that looks for the key-value markers first
KeyValueFirst(content) ==
    LET cleaned == strip(content)
    IN  IF /\ search(table_pattern(cleaned)).start # 0
           /\ search(field_pattern(cleaned)).start # 0 THEN "key_value"
        ELSE IF search(create_table_pattern(cleaned)).start # 0 THEN "sql_ddl"
        ELSE IF search(markdown_table_pattern(cleaned)).start # 0 THEN "markdown"
        ELSE "unknown"

\* a detection that takes a fields marker alone for the key-value format
KeyValueByFields(content) ==
    LET cleaned == strip(content)
    IN  IF search(create_table_pattern(cleaned)).start # 0 THEN "sql_ddl"
        ELSE IF search(markdown_table_pattern(cleaned)).start # 0 THEN "markdown"
        ELSE IF search(field_pattern(cleaned)).start # 0 THEN "key_value"
        ELSE "unknown"

_detect_format(content) ==
    LET cleaned == strip(content)
    IN  IF search(create_table_pattern(cleaned)).start # 0 THEN "sql_ddl"
        ELSE IF search(markdown_table_pattern(cleaned)).start # 0 THEN "markdown"
        ELSE IF /\ search(table_pattern(cleaned)).start # 0
                /\ search(field_pattern(cleaned)).start # 0 THEN "key_value"
        ELSE "unknown"

\* the fields of a table block: field_pattern.search(table_block)
BlockFields(table_block) ==
    LET field_match == search(field_pattern(table_block))
    IN  IF field_match.start # 0 THEN _parse_fields(field_match.groups[1]) ELSE <<>>

\* a block that runs from its marker to the end of the text
RestOfText(content, table_matches, i) ==
    SubSeq(content, table_matches[i].start, Len(content))

\* the block of the i-th table marker: up to the next marker, or for the
\* last one up to "relacionamentos:" or the end of the text
KeyValueBlock(content, table_matches, i) ==
    LET table_start == table_matches[i].start
        rel_section == find(content, "relacionamentos:", table_start)
        table_end   == IF i < Len(table_matches) THEN table_matches[i + 1].start
                       ELSE IF rel_section # 0 THEN rel_section
                       ELSE Len(content) + 1
    IN  SubSeq(content, table_start, table_end - 1)

_extract_tables_key_value(content) ==
    LET table_matches == finditer(table_pattern(content))
    IN  [i \in 1..Len(table_matches) |->
            Table(table_matches[i].groups[1],
                  BlockFields(KeyValueBlock(content, table_matches, i)))]

\* an iteration that takes the first ")" for the closing parenthesis
FirstClosingParen(st, content, i) ==
    IF st.done THEN st
    ELSE IF Ch(content, i) = ")"
         THEN [paren_count |-> 0, end_pos |-> i, done |-> TRUE]
    ELSE st

\* one iteration of the scan for the closing parenthesis; `done` is the break
ParenScanStep(st, content, i) ==
    IF st.done THEN st
    ELSE IF Ch(content, i) = "(" THEN [st EXCEPT !.paren_count = @ + 1]
    ELSE IF Ch(content, i) = ")"
         THEN IF st.paren_count - 1 = 0
              THEN [paren_count |-> 0, end_pos |-> i, done |-> TRUE]
              ELSE [st EXCEPT !.paren_count = @ - 1]
    ELSE st

\* the scan over the positions a..b, from state st
RECURSIVE ParenScanRange(_, _, _, _)
ParenScanRange(content, a, b, st) ==
    IF a > b THEN st
    ELSE IF a = b THEN ParenScanStep(st, content, a)
    ELSE LET left == ParenScanRange(content, a, (a + b) \div 2, st)
         IN  IF left.done THEN left
             ELSE ParenScanRange(content, (a + b) \div 2 + 1, b, left)

\* a column block that runs to the end of the text when the parenthesis is
\* never closed
UnclosedToEnd(content, start_pos) ==
    LET st == ParenScanRange(content, start_pos, Len(content),
                             [paren_count |-> 1, end_pos |-> start_pos, done |-> FALSE])
    IN  SubSeq(content, start_pos, IF st.done THEN st.end_pos - 1 ELSE Len(content))

\* the column block of a CREATE TABLE match: content[start_pos:end_pos]
SqlFieldsBlock(content, start_pos) ==
    SubSeq(content, start_pos,
           ParenScanRange(content, start_pos, Len(content),
                          [paren_count |-> 1, end_pos |-> start_pos, done |-> FALSE]).end_pos - 1)

_extract_tables_sql(content) ==
    LET create_matches == finditer(create_table_pattern(content))
    IN  [i \in 1..Len(create_matches) |->
            Table(create_matches[i].groups[1],
                  _parse_sql_fields(SqlFieldsBlock(content, create_matches[i].end)))]

\* the block of the i-th heading: from its end to the next heading
MarkdownBlock(content, markdown_matches, i) ==
    SubSeq(content, markdown_matches[i].end,
           (IF i < Len(markdown_matches) THEN markdown_matches[i + 1].start
            ELSE Len(content) + 1) - 1)

_extract_tables_markdown(content) ==
    LET markdown_matches == finditer(markdown_table_pattern(content))
    IN  [i \in 1..Len(markdown_matches) |->
            Table(markdown_matches[i].groups[1],
                  BlockFields(MarkdownBlock(content, markdown_matches, i)))]

KnownFormats == {"key_value", "sql_ddl", "markdown"}

\* _extract_tables_smart for a recognised format
ExtractByFormat(content, format_type) ==
    CASE format_type = "key_value" -> _extract_tables_key_value(content)
      [] format_type = "sql_ddl"   -> _extract_tables_sql(content)
      [] format_type = "markdown"  -> _extract_tables_markdown(content)

\* the strategies of the fallback branch, in the order the code tries them
FallbackOrder == <<"key_value", "sql_ddl", "markdown">>

\* the fallback branch once strategy k returned `tables`: the later
\* strategies run only while the result is empty
RECURSIVE FallbackFrom(_, _)
FallbackAfter(content, k, tables) ==
    IF tables # <<>> \/ k = Len(FallbackOrder) THEN tables
    ELSE FallbackFrom(content, k + 1)

\* the fallback branch from its k-th strategy on
FallbackFrom(content, k) ==
    FallbackAfter(content, k, ExtractByFormat(content, FallbackOrder[k]))

_extract_tables_smart(content, format_type) ==
    IF format_type \in KnownFormats THEN ExtractByFormat(content, format_type)
    ELSE FallbackFrom(content, 1)

\* a validation that also drops the tables without fields
DropsEmptyTables(tables) ==
    SelectSeq(tables, LAMBDA table : /\ "name" \in DOMAIN table
                                     /\ table.name # ""
                                     /\ table.fields # <<>>)

\* not table.get("name") drops a table without the key and one whose name
\* is empty
_validate_and_clean_tables(tables) ==
    SelectSeq(tables, LAMBDA table : "name" \in DOMAIN table /\ table.name # "")

-----------------------------------------------------------------------------
(* Explicit relationships                                                  *)

ExplicitRel(m) ==
    [from_table |-> m.groups[1], from_field |-> m.groups[2],
     to_table |-> m.groups[3], to_field |-> m.groups[4],
     type |-> "foreign_key", detected |-> "explicit"]

RelKey(r) == <<r.from_table, r.from_field, r.to_table, r.to_field>>

\* the line starts from g on: g and the position after each later newline
LineStarts(s, g) == {g} \cup {k + 1 : k \in {q \in g..Len(s) : Ch(s, q) = "\n"}}

\* where the lazy group ((?:.*\n)*?) starting at g can stop: the first line
\* start at which the lookahead holds.  Its alternatives \n\s*\n and
\* \n\s*(?:tabela|table): both begin with a newline, where `$` (re.MULTILINE)
\* already matches, so the lookahead holds exactly at a newline or at the end.
SectionStops(s, g) == {h \in LineStarts(s, g) : h > Len(s) \/ Ch(s, h) = "\n"}

\* \s*\n((?:.*\n)*?)(?=...) from a on, where the section marker ended:
\* \s*\n ends at a newline of the blank run after the colon, the last one
\* first (greedy), an earlier one when the rest cannot match
SectionAfter(s, p, a) ==
    LET nl == {j \in a..(Spaces(s, a) - 1) :
                  Ch(s, j) = "\n" /\ SectionStops(s, j + 1) # {}}
    IN  IF nl = {} THEN NoMatch
        ELSE Group(s, p, Max(nl) + 1, Min(SectionStops(s, Max(nl) + 1)),
                   Min(SectionStops(s, Max(nl) + 1)))

\* rel_section_pattern of _extract_relationships:
\* (?:relacionamentos|relationships):\s*\n((?:.*\n)*?)(?=\n\s*\n|\n\s*(?:tabela|table):|$)
rel_section_pattern(s) ==
    [p \in 1..Len(s) |->
        SectionAfter(s, p, AnyLit(s, p, {"RELACIONAMENTOS:", "RELATIONSHIPS:"}))]

\* a relationship of the section is added unless it is already there
AddRelationship(relationships, match) ==
    IF \/ match.start = 0
       \/ \E n \in 1..Len(relationships) :
              RelKey(relationships[n]) = RelKey(ExplicitRel(match))
    THEN relationships
    ELSE Append(relationships, ExplicitRel(match))

\* the loop over the lines of the relationships section, from line k
RECURSIVE SectionLines(_, _, _)
SectionLines(relationships, lines, k) ==
    IF k > Len(lines) THEN relationships
    ELSE SectionLines(IF strip(lines[k]) = "" \/ StartsAt(strip(lines[k]), 1, "#")
                      THEN relationships
                      ELSE AddRelationship(relationships, search(rel_pattern(strip(lines[k])))),
                      lines, k + 1)

\* the second part of _extract_relationships: the dedicated section
WithSection(relationships, rel_section_match) ==
    IF rel_section_match.start = 0 THEN relationships
    ELSE SectionLines(relationships, split_on(rel_section_match.groups[1], "\n"), 1)

_extract_relationships(content) ==
    LET inline_matches == finditer(rel_pattern(content))
    IN  WithSection([n \in 1..Len(inline_matches) |-> ExplicitRel(inline_matches[n])],
                    search(rel_section_pattern(content)))

-----------------------------------------------------------------------------
(* Implicit relationships.  Scores are in thousandths: 1000 is 1.0.        *)

\* re.sub(r'_+', '_', name) over the positions a..b: an underscore after an
\* underscore is dropped
RECURSIVE CollapseRange(_, _, _)
CollapseRange(s, a, b) ==
    IF a > b THEN ""
    ELSE IF a = b
         THEN (IF Ch(s, a) = "_" /\ a > 1 /\ Ch(s, a - 1) = "_" THEN "" ELSE Ch(s, a))
    ELSE CollapseRange(s, a, (a + b) \div 2) \o CollapseRange(s, (a + b) \div 2 + 1, b)

_normalize_field_name(name) ==
    LET stripped == strip(upper(name))
    IN  CollapseRange(stripped, 1, Len(stripped))

abbreviations ==
    [k \in {"LCT", "CTZ", "FLC", "FOL", "LIN", "ORG", "CTB", "CNTBL", "LACTO"} |->
        CASE k = "LCT"   -> "LANCAMENTO"
          [] k = "CTZ"   -> "CONTABILIZACAO"
          [] k = "FLC"   -> "FLC"
          [] k = "FOL"   -> "FOLHA"
          [] k = "LIN"   -> "LINHA"
          [] k = "ORG"   -> "ORIGEM"
          [] k = "CTB"   -> "CONTABIL"
          [] k = "CNTBL" -> "CONTABIL"
          [] k = "LACTO" -> "LANCAMENTO"]

\* abbreviations.get(name, name)
Expanded(name) == IF name \in DOMAIN abbreviations THEN abbreviations[name] ELSE name

\* one contains the other (equal names included)
EitherContains(a, b) == Contains(b, a) \/ Contains(a, b)

_are_abbreviations(name1, name2) == EitherContains(Expanded(name1), Expanded(name2))

prefixes == {"COD_", "NUM_", "ID_", "IND_", "DAT_", "SGL_", "DSC_", "VLR_", "QTD_", "ANO_", "MES_"}

_has_common_prefix(name1, name2) ==
    \E prefix \in prefixes :
        /\ StartsAt(name1, 1, prefix)
        /\ StartsAt(name2, 1, prefix)
        /\ LET suffix1 == SubSeq(name1, Len(prefix) + 1, Len(name1))
               suffix2 == SubSeq(name2, Len(prefix) + 1, Len(name2))
           IN  EitherContains(suffix1, suffix2) \/ _are_abbreviations(suffix1, suffix2)

common_words == {"DE", "DO", "DA", "EM", "A", "O", "E", "PARA", "COM"}

\* set(name.split('_')) - common_words
KeyWords(name) == {split_on(name, "_")[k] : k \in 1..Len(split_on(name, "_"))} \ common_words

\* the test of _shares_keywords on the two sets of words
SharedEnough(words1, words2) ==
    \/ Cardinality(words1 \cap words2) >= 2
    \/ /\ words1 # {}
       /\ words2 # {}
       /\ 2 * Cardinality(words1 \cap words2)
              >= (IF Cardinality(words1) <= Cardinality(words2)
                  THEN Cardinality(words1) ELSE Cardinality(words2))

_shares_keywords(name1, name2) == SharedEnough(KeyWords(name1), KeyWords(name2))

\* re.match(r'^(\w+)', type_str): the leading run of word characters
_get_base_type(type_str) ==
    upper(IF SkipWhile(type_str, 1, WordChars) > 1
          THEN SubSeq(type_str, 1, SkipWhile(type_str, 1, WordChars) - 1)
          ELSE type_str)

numeric_types == {"NUMBER", "INTEGER", "INT", "DECIMAL", "NUMERIC", "FLOAT"}

string_types == {"VARCHAR", "VARCHAR2", "CHAR", "TEXT", "STRING"}

date_types == {"DATE", "DATETIME", "TIMESTAMP"}

\* the test of _are_types_compatible on the two base types
SameFamily(type1_base, type2_base) ==
    \/ type1_base = type2_base
    \/ type1_base \in numeric_types /\ type2_base \in numeric_types
    \/ type1_base \in string_types /\ type2_base \in string_types
    \/ type1_base \in date_types /\ type2_base \in date_types

\* a test that takes only identical base types for compatible
IdenticalBaseTypes(type1, type2) ==
    _get_base_type(upper(type1)) = _get_base_type(upper(type2))

_are_types_compatible(type1, type2) ==
    SameFamily(_get_base_type(upper(type1)), _get_base_type(upper(type2)))

\* the score of the normalised names, before the type adjustment
CleanNameScore(name1_clean, name2_clean) ==
    IF name1_clean = name2_clean THEN 1000
    ELSE IF EitherContains(name1_clean, name2_clean) THEN 800
    ELSE IF _has_common_prefix(name1_clean, name2_clean) THEN 750
    ELSE IF _shares_keywords(name1_clean, name2_clean) THEN 700
    ELSE 0

\* the score of the names alone
NameScore(name1, name2) ==
    CleanNameScore(_normalize_field_name(name1), _normalize_field_name(name2))

\* a type adjustment that halves every score, compatible types or not
AlwaysHalved(score, type1, type2) == score \div 2

\* incompatible types halve a positive score
TypeAdjusted(score, type1, type2) ==
    IF score > 0 /\ ~_are_types_compatible(type1, type2) THEN score \div 2 ELSE score

_calculate_field_similarity(name1, name2, type1, type2) ==
    TypeAdjusted(NameScore(name1, name2), type1, type2)

SimilarityThreshold == 700

\* round(similarity_score, 2) on thousandths; the scores that pass the
\* threshold are whole hundredths, which rounding leaves as they are
round2(score) == ((score + 5) \div 10) * 10

\* an implicit relationship read from the later table to the earlier one
ReversedRel(table1_name, field1_name, table2_name, field2_name, score) ==
    [from_table |-> table2_name, from_field |-> field2_name,
     to_table |-> table1_name, to_field |-> field1_name,
     type |-> "possible_foreign_key", detected |-> "implicit",
     confidence |-> round2(score)]

ImplicitRel(table1_name, field1_name, table2_name, field2_name, score) ==
    [from_table |-> table1_name, from_field |-> field1_name,
     to_table |-> table2_name, to_field |-> field2_name,
     type |-> "possible_foreign_key", detected |-> "implicit",
     confidence |-> round2(score)]

\* a loop body that emits a relationship for every positive score
AnyPositiveScore(table1, field1, table2, field2, similarity_score) ==
    IF similarity_score > 0
    THEN <<ImplicitRel(table1.name, field1.name, table2.name, field2.name,
                       similarity_score)>>
    ELSE <<>>

\* the body of the innermost loop: a relationship when the score reaches
\* the threshold
PairRelationship(table1, field1, table2, field2, similarity_score) ==
    IF similarity_score >= SimilarityThreshold
    THEN <<ImplicitRel(table1.name, field1.name, table2.name, field2.name,
                       similarity_score)>>
    ELSE <<>>

\* the loop over the fields of table2 for one field of table1, from field k
RECURSIVE Field2Loop(_, _, _, _)
Field2Loop(table1, field1, table2, k) ==
    IF k > Len(table2.fields) THEN <<>>
    ELSE PairRelationship(table1, field1, table2, table2.fields[k],
                          _calculate_field_similarity(field1.name, table2.fields[k].name,
                                                      field1.type, table2.fields[k].type))
            \o Field2Loop(table1, field1, table2, k + 1)

\* the loop over the fields of table1, from field k
RECURSIVE Field1Loop(_, _, _)
Field1Loop(table1, table2, k) ==
    IF k > Len(table1.fields) THEN <<>>
    ELSE Field2Loop(table1, table1.fields[k], table2, 1)
            \o Field1Loop(table1, table2, k + 1)

\* the loop over tables[i + 1:], from table j
RECURSIVE Table2Loop(_, _, _)
Table2Loop(tables, i, j) ==
    IF j > Len(tables) THEN <<>>
    ELSE Field1Loop(tables[i], tables[j], 1) \o Table2Loop(tables, i, j + 1)

\* a loop over the tables that pairs each table with every table, itself
\* and the earlier ones included
RECURSIVE EveryOrderedPair(_, _)
EveryOrderedPair(tables, i) ==
    IF i > Len(tables) THEN <<>>
    ELSE Table2Loop(tables, i, 1) \o EveryOrderedPair(tables, i + 1)

\* the loop over the tables, from table i
RECURSIVE Table1Loop(_, _)
Table1Loop(tables, i) ==
    IF i > Len(tables) THEN <<>>
    ELSE Table2Loop(tables, i, i + 1) \o Table1Loop(tables, i + 1)

_detect_implicit_relationships(tables) ==
    IF Len(tables) < 2 THEN <<>> ELSE Table1Loop(tables, 1)

-----------------------------------------------------------------------------
(* Metadata and the whole parse                                            *)

_extract_metadata(content) ==
    LET metadata == [source |-> "text",
                     line_count |-> Len(split_on(content, "\n")),
                     char_count |-> Len(content)]
        db_match == search(db_pattern(content))
    IN  IF db_match.start # 0
        THEN metadata @@ [database_name |-> db_match.groups[1]]
        ELSE metadata

\* the result of parse from the detected format and the extracted tables
ParseResult(content, format_type, tables) ==
    [tables        |-> _validate_and_clean_tables(tables),
     relationships |-> _extract_relationships(content)
                          \o _detect_implicit_relationships(tables),
     metadata      |-> [detected_format |-> format_type] @@ _extract_metadata(content)]

\* TextParser.parse as one function of its input
parse(content) ==
    LET format_type == _detect_format(content)
    IN  ParseResult(content, format_type, _extract_tables_smart(content, format_type))

-----------------------------------------------------------------------------
(* Inputs                                                                  *)

\* the schema notes of tests/conftest.py (sample_text_structure), which is
\* the end-to-end example
EndToEndExample ==
    "\n    tabela: usuarios\n    campos: id (int, pk), nome (varchar), email (varchar), data_cadastro (datetime)\n    \n    tabela: pedidos\n    campos: id (int, pk), usuario_id (int, fk->usuarios), valor (decimal), status (varchar)\n    "

SqlExample == "CREATE TABLE t (a INT, b DECIMAL(10,2) NOT NULL)"

\* the field list of tests/test_parsing.py (test_parse_fields)
TestFieldsExample == "id (int, pk), nome (varchar), email (varchar, nullable)"

\* pieces of schema documents; a text is a run of at most MaxParts of them
Fragments ==
    { "tabela: a\n",
      "campos: id (int, pk), nome (varchar)\n",
      "table: b\nfields: id (varchar), nome (varchar), a_id (int, fk->a)\n",
      "Tabela: c\ncampos: id (int), nome (text)\n\n",
      "tabela: table: x\n",
      "CREATE TABLE t (a INT, b DECIMAL(10,2) NOT NULL);\n",
      "CREATE TABLE u (c INT\n",
      "# table: m\nfields: id (int)\n",
      "relacionamentos:\nb.a_id -> a.id\n",
      "relationships:\nb.a_id -> a.id\nfields: id (int)\n",
      "campos: \n",
      "-- notes\n" }

\* pieces of field lists; a field list is at most MaxParts of them, joined
\* by commas
FieldPieces ==
    { "id (int, pk)",
      "ANO (NUMBER(5,0))",
      "COD VARCHAR2(5 BYTE)",
      "nome",
      " ",
      "x (decimal, not null)",
      "y) z (a, b" }

MaxParts == 2

RECURSIVE Runs(_, _, _)
Runs(pieces, sep, n) ==
    IF n = 1 THEN pieces
    ELSE {t \o sep \o f : t \in Runs(pieces, sep, n - 1), f \in pieces}

RunsUpTo(pieces, sep, n) == {""} \cup UNION {Runs(pieces, sep, k) : k \in 1..n}

\* the texts one caller may hand to parse
Inputs == RunsUpTo(Fragments, "", MaxParts) \cup {EndToEndExample, SqlExample}

\* the tables handed to _validate_and_clean_tables: with and without a
\* name, with and without fields
SampleTables ==
    { Table("a", <<>>),
      Table("b", <<Field("id", "int", FALSE, FALSE, TRUE, <<>>)>>),
      Table("", <<Field("id", "int", FALSE, FALSE, TRUE, <<>>)>>),
      [fields |-> <<Field("x", "unknown", FALSE, FALSE, TRUE, <<>>)>>] }

\* the lists of tables one caller may hand to _validate_and_clean_tables
TableLists == UNION {[1..n -> SampleTables] : n \in 0..(MaxParts + 1)}

\* the lists of tables of two callers on the same parser
SharedTableLists == {<<Table("", <<>>), Table("a", <<>>)>>}

\* the field lists one caller may hand to _parse_fields
FieldInputs ==
    RunsUpTo(FieldPieces, ",", MaxParts) \cup {TestFieldsExample}

\* the column types DatabaseInspector may read from a database
ColumnTypes ==
    {"INT", "int", "Integer", "VARCHAR(50)", "NVARCHAR(20)", "NUMBER(5,0)",
     "DOUBLE PRECISION", "Geometry", "2d", ""}

SharedColumnTypes == {"INT", "Geometry"}

\* the texts offered when two callers share the parser
SharedInputs == {EndToEndExample, SqlExample, "tabela: a\n", "-- notes\n"}

SharedFieldInputs == {"id (int, pk)", "ANO (NUMBER(5,0))"}

-----------------------------------------------------------------------------
(* The parser as a state machine.  frames[k] holds the local variables of  *)
(* caller k's current call on the one TextParser and its position in it;   *)
(* sql_type and normalized_type are those of a call of                     *)
(* DatabaseInspector._normalize_type; sql, filename, file_type, syntax and  *)
(* allowed are those of a call of a validator.  backend is the state of    *)
(* query generation: QueryGenerator, StructureManager and the request in   *)
(* hand.                                                                   *)

VARIABLES frames, backend

vars == <<frames, backend>>

IdleFrame ==
    [pc |-> "idle", content |-> "", format_type |-> "", tables |-> <<>>,
     tried |-> <<>>, relationships |-> <<>>, metadata |-> <<>>, result |-> <<>>,
     fields_str |-> "", field_parts |-> <<>>, fields |-> <<>>, validated |-> <<>>,
     sql_type |-> "", normalized_type |-> "",
     sql |-> "", filename |-> "", file_type |-> "", syntax |-> <<>>,
     allowed |-> FALSE]

(* The values of query generation: QueryGenerator and StructureManager      *)

\* A JSON scalar as json.loads yields it: a number (in thousandths), a
\* string, null, or a key that the object does not hold
Num(n) == [t |-> "num", n |-> n, s |-> ""]

Str(s) == [t |-> "str", n |-> 0, s |-> s]

Null == [t |-> "null", n |-> 0, s |-> ""]

Missing == [t |-> "missing", n |-> 0, s |-> ""]

\* a JSON object with the keys the generator reads
Obj(sql, explanation, confidence) ==
    [t |-> "obj", sql |-> sql, explanation |-> explanation, confidence |-> confidence]

\* valid JSON that is no object (a number, a list, a string)
NotAnObject == [t |-> "other", sql |-> Missing, explanation |-> Missing, confidence |-> Missing]

\* text that json.loads rejects with JSONDecodeError
Invalid == [t |-> "invalid", sql |-> Missing, explanation |-> Missing, confidence |-> Missing]

\* a pattern of _parse_llm_response that does not match the text
Unmatched == [t |-> "unmatched", sql |-> Missing, explanation |-> Missing, confidence |-> Missing]

\* An answer of the LLM, by what _parse_llm_response can draw from it: what
\* json.loads makes of the whole text, of the group of the fenced pattern
\* and of the match of the {..."sql"...} pattern
ResponseText(whole, fenced, braces) == [whole |-> whole, fenced |-> fenced, braces |-> braces]

\* dict.get(key, default) on a parsed object
Get(value, default) == IF value.t = "missing" THEN default ELSE value

\* the dict returned when no JSON can be drawn from the answer
UnparseableAnswer ==
    Obj(Str("-- Erro ao parsear resposta do LLM"),
        Str("Resposta do LLM não está em formato JSON válido."), Num(0))

_parse_llm_response(response_text) ==
    IF response_text.whole.t # "invalid" THEN response_text.whole
    ELSE IF response_text.fenced.t = "obj" THEN response_text.fenced
    ELSE IF response_text.braces.t = "obj" THEN response_text.braces
    ELSE UnparseableAnswer

\* What a call gives back: a response, or the exception it raised, by its
\* message str(e)
Returned(sql, explanation, confidence) ==
    [raised |-> "", sql |-> sql, explanation |-> explanation, confidence |-> confidence]

Raised(e) == [raised |-> e, sql |-> "", explanation |-> "", confidence |-> 0]

\* the strings that float() converts, with their values in thousandths
FloatLiterals == [s \in {"0.5", "1.5"} |-> IF s = "0.5" THEN 500 ELSE 1500]

\* float(value): a number or a string that spells one
CanFloat(value) ==
    value.t = "num" \/ (value.t = "str" /\ value.s \in DOMAIN FloatLiterals)

float(value) == IF value.t = "num" THEN value.n ELSE FloatLiterals[value.s]

\* SQLQueryResponse(...): pydantic checks sql: str, explanation: str and
\* confidence: float with ge=0.0, le=1.0
SQLQueryResponse(sql, explanation, confidence) ==
    IF sql.t = "str" /\ explanation.t = "str" /\ confidence >= 0 /\ confidence <= 1000
    THEN Returned(sql.s, explanation.s, confidence)
    ELSE Raised("1 validation error for SQLQueryResponse")

\* the response built from the parsed answer
BuildResponse(parsed_response) ==
    IF parsed_response.t # "obj" THEN Raised("'list' object has no attribute 'get'")
    ELSE IF ~CanFloat(Get(parsed_response.confidence, Num(800)))
    THEN Raised(IF parsed_response.confidence.t = "null"
                THEN "float() argument must be a string or a real number, not 'NoneType'"
                ELSE "could not convert string to float: '" \o parsed_response.confidence.s \o "'")
    ELSE SQLQueryResponse(Get(parsed_response.sql, Str("-- Erro ao extrair SQL")),
                          Get(parsed_response.explanation, Str("Explicação não disponível")),
                          float(Get(parsed_response.confidence, Num(800))))

LlmNotConfigured ==
    SQLQueryResponse(Str("-- LLM não configurado. Configure OPENAI_API_KEY no arquivo .env"),
                     Str("Configure a API key da OpenAI para usar este recurso"), 0)

NoStructureLoaded ==
    SQLQueryResponse(Str("-- Nenhuma estrutura de banco de dados carregada"),
                     Str("Por favor, carregue uma estrutura de banco de dados antes de gerar queries"),
                     0)

\* logger.error(message, exc_info=True): loguru formats a message that
\* comes with keyword arguments, message.format(exc_info=True), and a brace
\* in the message names a field that the arguments do not hold (KeyError,
\* IndexError or ValueError); the messages modelled hold no doubled brace
FormatRaises(message) == \E i \in 1..Len(message) : Ch(message, i) \in {"{", "}"}

\* except Exception as e: the error is logged, then the friendly error
\* response is returned
OnException(outcome) ==
    IF outcome.raised = "" THEN outcome
    ELSE IF FormatRaises("Erro ao gerar query: " \o outcome.raised) THEN Raised("'error'")
    ELSE SQLQueryResponse(Str("-- Erro ao gerar query"),
                          Str("Ocorreu um erro ao gerar a query: " \o outcome.raised), 0)

\* the messages of the exceptions the LLM client raises: a connection
\* error, and an API status error, whose message quotes the body
LlmErrors ==
    { "Connection error.",
      "Error code: 401 - {'error': {'message': 'Incorrect API key provided'}}" }

\* the answers the LLM is taken to give
LlmAnswers ==
    { ResponseText(Obj(Str("SELECT 1"), Str("one"), Num(950)), Unmatched, Unmatched),
      ResponseText(Obj(Str("SELECT 1"), Str("one"), Missing), Unmatched, Unmatched),
      ResponseText(Obj(Missing, Missing, Missing), Unmatched, Unmatched),
      ResponseText(Obj(Str("SELECT 1"), Str("one"), Num(1500)), Unmatched, Unmatched),
      ResponseText(Obj(Str("SELECT 1"), Str("one"), Num(0 - 100)), Unmatched, Unmatched),
      ResponseText(Obj(Str("SELECT 1"), Str("one"), Str("high")), Unmatched, Unmatched),
      ResponseText(Obj(Str("SELECT 1"), Str("one"), Str("0.5")), Unmatched, Unmatched),
      ResponseText(Obj(Str("SELECT 1"), Str("one"), Str("1.5")), Unmatched, Unmatched),
      ResponseText(Obj(Str("SELECT 1"), Str("one"), Null), Unmatched, Unmatched),
      ResponseText(Obj(Null, Str("one"), Num(950)), Unmatched, Unmatched),
      ResponseText(NotAnObject, Unmatched, Unmatched),
      ResponseText(Invalid, Obj(Str("SELECT 1"), Str("one"), Num(900)), Unmatched),
      ResponseText(Invalid, Invalid, Obj(Str("SELECT 1"), Missing, Num(1500))),
      ResponseText(Invalid, Invalid, Invalid),
      ResponseText(Invalid, Unmatched, Unmatched) }

NoAnswer == ResponseText(Unmatched, Unmatched, Unmatched)

\* the questions posted
Questions == {"", "Liste todos os usuarios"}

\* the structures uploaded: the number of tables stands for the structure
Structures == {1, 2}

\* StructureManager._current_structure: 0 is None
NoStructure == 0

\* the requests that upload a structure, and the calls of StructureManager
\* that are followed before the model stops taking new ones
UploadIds == {1, 2}

MaxCalls == 3

\* what each upload handler does before StructureManager.set_structure, every
\* one of which may raise
UploadSteps ==
    [upload_text_structure     |-> <<"file.read", "content.decode", "extract_from_text">>,
     upload_image_structure    |-> <<"file.read", "extract_from_image">>,
     connect_and_load_database |-> <<"extract_from_database">>]

\* an upload request that has not arrived; before is the structure held when
\* it arrived and mark the number of StructureManager calls made by then
IdleUpload ==
    [pc |-> "idle", handler |-> "", step |-> 0, structure |-> NoStructure,
     status_code |-> 0, before |-> NoStructure, mark |-> 0]

\* a slot that keeps the structure it holds when it holds one
KeepsFirst(current, structure) == IF current # NoStructure THEN current ELSE structure

\* cls._current_structure = structure
Stored(current, structure) == structure

\* the truth value of the slot: None is false, a DatabaseStructure is true
Truthy(current) == current # NoStructure

\* StructureManager.clear_structure: if cls._current_structure: ... = None
Cleared(current) == IF Truthy(current) THEN NoStructure ELSE current

\* StructureManager.get_structure, has_structure and get_structure_summary
get_structure(current) == current

has_structure(current) == current # NoStructure

get_structure_summary(current) ==
    IF ~Truthy(current) THEN [loaded |-> FALSE, tables_count |-> 0]
    ELSE [loaded |-> TRUE, tables_count |-> current]

\* The backend after construction: the generator with or without an LLM,
\* no structure loaded, no request in progress.  structure and response_text
\* are locals of generate; outcome is what generate gave back to the route
\* the operations that connect, use the connection and disconnect
ConnectOperations ==
    {"test_connection", "extract_from_database", "connect_and_extract_structure"}

\* DatabaseInspector.SUPPORTED_DIALECTS, by its keys
SUPPORTED_DIALECTS == {"mysql", "postgresql", "sqlite", "mssql"}

\* the db_type of a request
DbTypes == {"postgresql", "SQLite", "oracle"}

\* the steps of DatabaseInspector.connect that may raise; none: it returns
ConnectSteps ==
    {"build_connection_string", "create_engine", "engine.connect", "inspect", "none"}

\* DatabaseInspector.__init__, and no call in hand
IdleInspector ==
    [pc |-> "idle", db_type |-> "", engine |-> FALSE, inspector |-> FALSE, outcome |-> ""]

IdleBackend(llm) ==
    [llm |-> llm, _current_structure |-> NoStructure, pc |-> "idle", question |-> "",
     structure |-> NoStructure, failed |-> FALSE, response_text |-> NoAnswer,
     outcome |-> Raised(""), status_code |-> 0,
     requests |-> [r \in UploadIds |-> IdleUpload], calls |-> <<>>,
     inspectors |-> [op \in ConnectOperations |-> IdleInspector]]

\* the tables kept on the parser instead of in the call: every caller reads
\* the tables of the last caller
TablesOnInstance(fr, k) == [fr[k] EXCEPT !.tables = fr[Max(DOMAIN fr)].tables]

\* the local variables of caller k's call
Locals(fr, k) == fr[k]

Callers == DOMAIN frames

OfferedTexts == IF Cardinality(Callers) = 1 THEN Inputs ELSE SharedInputs

OfferedFieldLists == IF Cardinality(Callers) = 1 THEN FieldInputs ELSE SharedFieldInputs

OfferedTableLists == IF Cardinality(Callers) = 1 THEN TableLists ELSE SharedTableLists

OfferedColumnTypes == IF Cardinality(Callers) = 1 THEN ColumnTypes ELSE SharedColumnTypes

\* one caller
Init == frames = [k \in {1} |-> IdleFrame] /\ backend = IdleBackend(FALSE)

\* two callers on the same parser
InitShared == frames = [k \in {1, 2} |-> IdleFrame] /\ backend = IdleBackend(FALSE)

\* parse(content) is entered
Call(k, c) ==
    /\ frames[k].pc = "idle"
    /\ frames' = [frames EXCEPT ![k] = [IdleFrame EXCEPT !.pc = "detect", !.content = c]]

\* format_type = self._detect_format(content)
DetectFormat(k) ==
    /\ Locals(frames, k).pc = "detect"
    /\ frames' = [frames EXCEPT ![k] =
            [Locals(frames, k) EXCEPT
                !.format_type = _detect_format(Locals(frames, k).content),
                !.pc = "extract"]]

\* _extract_tables_smart, a recognised format: its one strategy
ExtractTables(k) ==
    /\ Locals(frames, k).pc = "extract"
    /\ Locals(frames, k).format_type \in KnownFormats
    /\ frames' = [frames EXCEPT ![k] =
            [Locals(frames, k) EXCEPT
                !.tables = ExtractByFormat(Locals(frames, k).content,
                                           Locals(frames, k).format_type),
                !.tried = <<Locals(frames, k).format_type>>,
                !.pc = "relationships"]]

\* a fallback that goes on to the next strategy whatever the last one found
AlwaysContinue(n, tables) ==
    IF n = Len(FallbackOrder) THEN "relationships" ELSE "fallback"

\* the position after the n-th fallback strategy returned `tables`
AfterFallback(n, tables) ==
    IF tables # <<>> \/ n = Len(FallbackOrder) THEN "relationships" ELSE "fallback"

\* _extract_tables_smart, unknown format: the next strategy of the fallback,
\* which returned `tables`
Fallback(k, at, tables) ==
    /\ Locals(frames, k).pc = at
    /\ Locals(frames, k).format_type \notin KnownFormats
    /\ frames' = [frames EXCEPT ![k] =
            [Locals(frames, k) EXCEPT
                !.tables = tables,
                !.tried = Append(@, FallbackOrder[Len(@) + 1]),
                !.pc = AfterFallback(Len(Locals(frames, k).tried) + 1, tables)]]

\* the first strategy is tried as soon as the format is unknown
FallbackFirst(k) ==
    /\ Locals(frames, k).tried = <<>>
    /\ Fallback(k, "extract", _extract_tables_key_value(Locals(frames, k).content))

\* a later strategy is tried when the ones before it found nothing
FallbackNext(k) ==
    /\ Locals(frames, k).tried # <<>>
    /\ Fallback(k, "fallback",
                ExtractByFormat(Locals(frames, k).content,
                                FallbackOrder[Len(Locals(frames, k).tried) + 1]))

\* relationships = self._extract_relationships(content)
ExtractRelationships(k) ==
    /\ Locals(frames, k).pc = "relationships"
    /\ frames' = [frames EXCEPT ![k] =
            [Locals(frames, k) EXCEPT
                !.relationships = _extract_relationships(Locals(frames, k).content),
                !.pc = "implicit"]]

\* relationships.extend(self._detect_implicit_relationships(tables))
DetectImplicit(k) ==
    /\ Locals(frames, k).pc = "implicit"
    /\ frames' = [frames EXCEPT ![k] =
            [Locals(frames, k) EXCEPT
                !.relationships = @ \o _detect_implicit_relationships(Locals(frames, k).tables),
                !.pc = "metadata"]]

\* metadata = self._extract_metadata(content); metadata["detected_format"] = ...
ExtractMetadata(k) ==
    /\ Locals(frames, k).pc = "metadata"
    /\ frames' = [frames EXCEPT ![k] =
            [Locals(frames, k) EXCEPT
                !.metadata = [detected_format |-> Locals(frames, k).format_type]
                                @@ _extract_metadata(Locals(frames, k).content),
                !.pc = "validate"]]

\* the frame once the validated tables are known: the result is built
Validated(f, tables) ==
    [f EXCEPT !.tables = tables,
              !.result = [tables |-> tables,
                          relationships |-> f.relationships,
                          metadata |-> f.metadata],
              !.pc = "done"]

\* tables = self._validate_and_clean_tables(tables); result = {...}
Validate(k) ==
    /\ Locals(frames, k).pc = "validate"
    /\ frames' = [frames EXCEPT ![k] =
            Validated(Locals(frames, k),
                      _validate_and_clean_tables(Locals(frames, k).tables))]

\* the frame of a call of _parse_fields whose list was split into field_parts
FieldsFrame(fs, field_parts) ==
    [IdleFrame EXCEPT !.fields_str = fs,
                      !.field_parts = field_parts,
                      !.fields = ParseParts(field_parts, 1),
                      !.pc = "fields_done"]

\* a direct call of _parse_fields(fields_str), as the tests make it
CallParseFields(k, fs) ==
    /\ frames[k].pc = "idle"
    /\ frames' = [frames EXCEPT ![k] = FieldsFrame(fs, _smart_split_fields(strip(fs)))]

\* a direct call of _validate_and_clean_tables(tables)
CallValidate(k, tables) ==
    /\ frames[k].pc = "idle"
    /\ frames' = [frames EXCEPT ![k] = [IdleFrame EXCEPT !.tables = tables,
                                                         !.validated = _validate_and_clean_tables(tables),
                                                         !.pc = "validated"]]

\* normalized_type = self._normalize_type(col_type), as
\* DatabaseInspector._extract_tables does it for each column it reads
CallNormalizeType(k, sql_type) ==
    /\ frames[k].pc = "idle"
    /\ frames' = [frames EXCEPT ![k] = [IdleFrame EXCEPT !.sql_type = sql_type,
                                                         !.normalized_type = _normalize_type(sql_type),
                                                         !.pc = "normalized"]]

\* the call returns; its local variables are gone
Return(k) ==
    /\ frames[k].pc \in {"done", "fields_done", "validated", "normalized"}
    /\ frames' = [frames EXCEPT ![k] = IdleFrame]

Next ==
    \E k \in Callers :
        /\ \/ \E c \in OfferedTexts : Call(k, c)
           \/ DetectFormat(k)
           \/ ExtractTables(k)
           \/ FallbackFirst(k)
           \/ FallbackNext(k)
           \/ ExtractRelationships(k)
           \/ DetectImplicit(k)
           \/ ExtractMetadata(k)
           \/ Validate(k)
           \/ \E fs \in OfferedFieldLists : CallParseFields(k, fs)
           \/ \E tables \in OfferedTableLists : CallValidate(k, tables)
           \/ \E sql_type \in OfferedColumnTypes : CallNormalizeType(k, sql_type)
           \/ Return(k)
        /\ UNCHANGED backend

Spec == Init /\ [][Next]_vars

SpecShared == InitShared /\ [][Next]_vars

-----------------------------------------------------------------------------
(* Query generation: POST /api/query/generate and QueryGenerator.generate  *)

InitQuery == frames = [k \in {1} |-> IdleFrame] /\ backend \in {IdleBackend(llm) : llm \in BOOLEAN}

\* StructureManager.set_structure(structure)
set_structure(structure) ==
    /\ backend' = [backend EXCEPT !._current_structure = structure]
    /\ UNCHANGED frames

\* StructureManager.clear_structure()
clear_structure ==
    /\ backend' = [backend EXCEPT !._current_structure = NoStructure]
    /\ UNCHANGED frames

\* generate has its outcome: the except clause turns an exception into the
\* error response, and the route is next
Leave(outcome) == [backend EXCEPT !.pc = "route", !.outcome = OnException(outcome)]

\* POST /api/query/generate reaches generate_query, which calls generate
generate_query(question) ==
    /\ backend.pc = "idle"
    /\ backend' = [IdleBackend(backend.llm) EXCEPT
                      !._current_structure = backend._current_structure,
                      !.question = question, !.pc = "llm"]
    /\ UNCHANGED frames

\* if not self.llm
CheckLlm ==
    /\ backend.pc = "llm"
    /\ backend' = IF backend.llm THEN [backend EXCEPT !.pc = "structure"]
                  ELSE Leave(LlmNotConfigured)
    /\ UNCHANGED frames

\* structure = StructureManager.get_structure(); if structure is None
GetStructure ==
    /\ backend.pc = "structure"
    /\ backend' = IF backend._current_structure # NoStructure
                  THEN [backend EXCEPT !.structure = backend._current_structure,
                                       !.pc = "invoke"]
                  ELSE Leave(NoStructureLoaded)
    /\ UNCHANGED frames

\* result = await self.llm.ainvoke(messages): the LLM answers
Answer(response_text) ==
    /\ backend.pc = "invoke"
    /\ backend' = [backend EXCEPT !.response_text = response_text, !.pc = "parse"]
    /\ UNCHANGED frames

\* result = await self.llm.ainvoke(messages): the call fails
Fail(e) ==
    /\ backend.pc = "invoke"
    /\ backend' = [Leave(Raised(e)) EXCEPT !.failed = TRUE]
    /\ UNCHANGED frames

\* parsed_response = self._parse_llm_response(response_text) and the
\* response built from it
ParseAnswer ==
    /\ backend.pc = "parse"
    /\ backend' = Leave(BuildResponse(_parse_llm_response(backend.response_text)))
    /\ UNCHANGED frames

\* generate_query returns the result, or answers 500 on an exception
RouteReturn ==
    /\ backend.pc = "route"
    /\ backend' = [backend EXCEPT !.status_code = IF backend.outcome.raised = "" THEN 200 ELSE 500,
                                  !.pc = "answered"]
    /\ UNCHANGED frames

\* the answer has gone out
Answered ==
    /\ backend.pc = "answered"
    /\ backend' = [backend EXCEPT !.pc = "idle"]
    /\ UNCHANGED frames

NextQuery ==
    \/ \E structure \in Structures : set_structure(structure)
    \/ clear_structure
    \/ \E question \in Questions : generate_query(question)
    \/ CheckLlm
    \/ GetStructure
    \/ \E response_text \in LlmAnswers : Answer(response_text)
    \/ \E e \in LlmErrors : Fail(e)
    \/ ParseAnswer
    \/ RouteReturn
    \/ Answered

SpecQuery == InitQuery /\ [][NextQuery]_vars

-----------------------------------------------------------------------------
(* The current structure: the upload routes and StructureManager.  Each    *)
(* request runs its handler step by step; the steps of two requests        *)
(* interleave at the awaits.  backend.calls is the list of the calls of     *)
(* StructureManager made so far, each with the request that made it.        *)

\* a request reaches one of the three upload handlers
BeginUpload(r, handler) ==
    /\ backend.requests[r].pc = "idle"
    /\ backend' = [backend EXCEPT !.requests[r] =
            [IdleUpload EXCEPT !.pc = "running", !.handler = handler, !.step = 1,
                               !.before = backend._current_structure,
                               !.mark = Len(backend.calls)]]
    /\ UNCHANGED frames

\* a step of the handler before the last one is done
StepDone(r) ==
    /\ backend.requests[r].pc = "running"
    /\ backend.requests[r].step < Len(UploadSteps[backend.requests[r].handler])
    /\ backend' = [backend EXCEPT !.requests[r].step = @ + 1]
    /\ UNCHANGED frames

\* the last step gives the structure
Extracted(r, structure) ==
    /\ backend.requests[r].pc = "running"
    /\ backend.requests[r].step = Len(UploadSteps[backend.requests[r].handler])
    /\ backend' = [backend EXCEPT !.requests[r].structure = structure,
                                  !.requests[r].pc = "store"]
    /\ UNCHANGED frames

\* a handler whose except clause empties the slot
FailureClears(b, r) ==
    [b EXCEPT !.requests[r].status_code = 500, !.requests[r].pc = "answered",
              !._current_structure = NoStructure]

\* except Exception: raise HTTPException(status_code=500, ...)
FailedUpload(b, r) ==
    [b EXCEPT !.requests[r].status_code = 500, !.requests[r].pc = "answered"]

\* the step in hand raises
StepRaises(r) ==
    /\ backend.requests[r].pc = "running"
    /\ backend' = FailedUpload(backend, r)
    /\ UNCHANGED frames

\* StructureManager.set_structure(structure)
StoreStructure(r) ==
    /\ backend.requests[r].pc = "store"
    /\ Len(backend.calls) < MaxCalls
    /\ backend' = [backend EXCEPT
            !._current_structure = Stored(@, backend.requests[r].structure),
            !.calls = Append(@, [op |-> "set_structure", by |-> r,
                                 structure |-> backend.requests[r].structure]),
            !.requests[r].pc = "return"]
    /\ UNCHANGED frames

\* return {"message": ..., "structure": structure, "summary": ...}
UploadReturns(r) ==
    /\ backend.requests[r].pc = "return"
    /\ backend' = [backend EXCEPT !.requests[r].status_code = 200,
                                  !.requests[r].pc = "answered"]
    /\ UNCHANGED frames

\* the answer has gone out
UploadAnswered(r) ==
    /\ backend.requests[r].pc = "answered"
    /\ backend' = [backend EXCEPT !.requests[r] = IdleUpload]
    /\ UNCHANGED frames

\* DELETE /api/structure/current: StructureManager.clear_structure()
clear_current_structure ==
    /\ Len(backend.calls) < MaxCalls
    /\ backend' = [backend EXCEPT
            !._current_structure = Cleared(@),
            !.calls = Append(@, [op |-> "clear_structure", by |-> 0,
                                 structure |-> NoStructure])]
    /\ UNCHANGED frames

NextStore ==
    \/ \E r \in UploadIds : \E handler \in DOMAIN UploadSteps : BeginUpload(r, handler)
    \/ \E r \in UploadIds : StepDone(r)
    \/ \E r \in UploadIds : \E structure \in Structures : Extracted(r, structure)
    \/ \E r \in UploadIds : StepRaises(r)
    \/ \E r \in UploadIds : StoreStructure(r)
    \/ \E r \in UploadIds : UploadReturns(r)
    \/ \E r \in UploadIds : UploadAnswered(r)
    \/ clear_current_structure

SpecStore == Init /\ [][NextStore]_vars

-----------------------------------------------------------------------------
(* Connections: the operations that connect a DatabaseInspector, use it    *)
(* and disconnect.  backend.inspectors[op] is the inspector of operation   *)
(* op with the position of the call in hand: engine and inspector say      *)
(* whether self.engine and self.inspector are set (not None).  What the    *)
(* database and its driver do is an input: the step at which connect       *)
(* fails, and whether the use of the connection raises.                    *)

\* DatabaseInspector.connect: build_connection_string raises before the
\* engine is assigned when db_type is not supported; create_engine may
\* raise; then self.engine is assigned; the test SELECT 1 may raise;
\* inspect may raise; then self.inspector is assigned.  The call in hand
\* goes on to use the connection, or to the except clause of its caller.
connect(i, fails_at) ==
    [i EXCEPT !.engine = IF fails_at \in {"engine.connect", "inspect", "none"}
                         THEN TRUE ELSE @,
              !.inspector = IF fails_at = "none" THEN TRUE ELSE @,
              !.pc = IF fails_at = "none" THEN "use" ELSE "except"]

\* the steps at which connect may fail for a db_type
FailurePoints(db_type) ==
    IF lower(db_type) \notin SUPPORTED_DIALECTS THEN {"build_connection_string"}
    ELSE {"create_engine", "engine.connect", "inspect", "none"}

\* DatabaseInspector.disconnect: if self.engine: dispose, engine = None,
\* inspector = None
disconnect(i) ==
    IF i.engine THEN [i EXCEPT !.engine = FALSE, !.inspector = FALSE] ELSE i

\* a call begins: test_database_connection and
\* connect_and_extract_structure make a DatabaseInspector() of their own,
\* extract_from_database uses the one its StructureExtractor keeps
BeginConnection(op, db_type) ==
    /\ backend.inspectors[op].pc = "idle"
    /\ op = "connect_and_extract_structure" => db_type = "postgresql"
    /\ backend' = [backend EXCEPT !.inspectors[op] =
           [IF op = "extract_from_database" THEN @ ELSE IdleInspector
               EXCEPT !.pc = "connect", !.db_type = db_type, !.outcome = ""]]
    /\ UNCHANGED frames

\* self.connect(...) / inspector.connect(...)
Connect(op, fails_at) ==
    /\ backend.inspectors[op].pc = "connect"
    /\ fails_at \in FailurePoints(backend.inspectors[op].db_type)
    /\ backend' = [backend EXCEPT !.inspectors[op] = connect(@, fails_at)]
    /\ UNCHANGED frames

\* the connection is used, get_table_names in test_connection and
\* extract_structure in the other two; if that does not raise, the
\* operation disconnects and returns its result
UseConnection(op, raises) ==
    /\ backend.inspectors[op].pc = "use"
    /\ backend' = [backend EXCEPT !.inspectors[op] =
           IF raises THEN [@ EXCEPT !.pc = "except"]
           ELSE [disconnect(@) EXCEPT !.pc = "done", !.outcome = "success"]]
    /\ UNCHANGED frames

\* except Exception: extract_from_database disconnects and raises again;
\* test_connection and connect_and_extract_structure return a dict that
\* reports the failure
HandlesFailure(i, op) ==
    IF op = "extract_from_database"
    THEN [disconnect(i) EXCEPT !.pc = "done", !.outcome = "raised"]
    ELSE [i EXCEPT !.pc = "done", !.outcome = "failure"]

ConnectionFails(op) ==
    /\ backend.inspectors[op].pc = "except"
    /\ backend' = [backend EXCEPT !.inspectors[op] = HandlesFailure(@, op)]
    /\ UNCHANGED frames

\* the caller has the result (or the exception) of the operation
ConnectionReturns(op) ==
    /\ backend.inspectors[op].pc = "done"
    /\ backend' = [backend EXCEPT !.inspectors[op].pc = "idle"]
    /\ UNCHANGED frames

NextConnect ==
    \/ \E op \in ConnectOperations : \E db_type \in DbTypes : BeginConnection(op, db_type)
    \/ \E op \in ConnectOperations : \E fails_at \in ConnectSteps : Connect(op, fails_at)
    \/ \E op \in ConnectOperations : \E raises \in BOOLEAN : UseConnection(op, raises)
    \/ \E op \in ConnectOperations : ConnectionFails(op)
    \/ \E op \in ConnectOperations : ConnectionReturns(op)

SpecConnect == Init /\ [][NextConnect]_vars

-----------------------------------------------------------------------------
(* The validators: SQLValidator and FileValidator.  A caller hands a query *)
(* or a file name to one static method and reads what it returns.          *)

DANGEROUS_KEYWORDS ==
    <<"DROP", "DELETE", "TRUNCATE", "ALTER", "CREATE", "INSERT", "UPDATE">>

READ_KEYWORDS == <<"SELECT", "SHOW", "DESCRIBE", "EXPLAIN">>

ALLOWED_TEXT_EXTENSIONS == <<".txt", ".sql", ".ddl">>

ALLOWED_IMAGE_EXTENSIONS == <<".png", ".jpg", ".jpeg", ".bmp", ".tiff">>

\* x in a list
InList(x, list) == \E i \in 1..Len(list) : list[i] = x

\* str.count(c) of a 1-character c
count(s, c) == Cardinality({i \in 1..Len(s) : Ch(s, i) = c})

\* SQLValidator.is_read_only: the trimmed upper-cased query starts with a
\* read keyword
is_read_only(sql) ==
    LET sql_upper == strip(upper(sql))
    IN  \E i \in 1..Len(READ_KEYWORDS) : StartsAt(sql_upper, 1, READ_KEYWORDS[i])

\* SQLValidator.validate_syntax: the tuple (is_valid, error message)
validate_syntax(sql) ==
    IF sql = "" \/ strip(sql) = "" THEN <<FALSE, <<"Query vazia">>>>
    ELSE IF count(sql, "(") # count(sql, ")")
         THEN <<FALSE, <<"Parênteses não balanceados">>>>
    ELSE IF count(sql, "'") % 2 # 0
         THEN <<FALSE, <<"Aspas simples não balanceadas">>>>
    ELSE IF count(sql, "\"") % 2 # 0
         THEN <<FALSE, <<"Aspas duplas não balanceadas">>>>
    ELSE <<TRUE, <<>>>>

\* FileValidator.is_allowed_extension
is_allowed_extension(filename, file_type) ==
    LET pieces == split_on(lower(filename), ".")
        ext == "." \o pieces[Len(pieces)]
    IN  IF file_type = "text" THEN InList(ext, ALLOWED_TEXT_EXTENSIONS)
        ELSE IF file_type = "image" THEN InList(ext, ALLOWED_IMAGE_EXTENSIONS)
        ELSE FALSE

\* the pieces of the queries handed to validate_syntax
SyntaxPieces == {"(", ")", "'", "\"", "id = 1", " "}

SyntaxInputs ==
    RunsUpTo(SyntaxPieces, "", MaxParts + 1)
        \cup {"SELECT * FROM users WHERE id = 1", "SELECT * FROM users WHERE (id = 1"}

\* the statements of the queries handed to is_read_only
Statements ==
    {"SELECT * FROM users", "select 1", "SHOW TABLES", " describe users",
     "EXPLAIN SELECT 1", "DELETE FROM users", "UPDATE users SET name='x'",
     "DROP TABLE users", "truncate table users", "ALTER TABLE users ADD c INT",
     "CREATE TABLE t (c INT)", "INSERT INTO t VALUES (1)"}

ReadOnlyInputs == RunsUpTo(Statements, "; ", MaxParts)

\* the file names and file types handed to is_allowed_extension
FilenamePieces == {"test", "txt", "SQL", "ddl", "png", "Jpeg", "tiff", "exe", ""}

Filenames == RunsUpTo(FilenamePieces, ".", MaxParts + 1)

FileTypes == {"text", "image", "video"}

\* is_valid, error = SQLValidator.validate_syntax(sql)
CallValidateSyntax(k, sql) ==
    /\ frames[k].pc = "idle"
    /\ frames' = [frames EXCEPT ![k] = [IdleFrame EXCEPT !.sql = sql,
                                                         !.syntax = validate_syntax(sql),
                                                         !.pc = "syntax_checked"]]

\* SQLValidator.is_read_only(sql)
CallIsReadOnly(k, sql) ==
    /\ frames[k].pc = "idle"
    /\ frames' = [frames EXCEPT ![k] = [IdleFrame EXCEPT !.sql = sql,
                                                         !.allowed = is_read_only(sql),
                                                         !.pc = "read_only_checked"]]

\* FileValidator.is_allowed_extension(filename, file_type)
CallIsAllowedExtension(k, filename, file_type) ==
    /\ frames[k].pc = "idle"
    /\ frames' = [frames EXCEPT ![k] = [IdleFrame EXCEPT !.filename = filename,
                                                         !.file_type = file_type,
                                                         !.allowed = is_allowed_extension(filename, file_type),
                                                         !.pc = "extension_checked"]]

\* the caller has read the answer
ValidatorReturns(k) ==
    /\ frames[k].pc \in {"syntax_checked", "read_only_checked", "extension_checked"}
    /\ frames' = [frames EXCEPT ![k] = IdleFrame]

NextValidators ==
    \E k \in Callers :
        /\ \/ \E sql \in SyntaxInputs : CallValidateSyntax(k, sql)
           \/ \E sql \in ReadOnlyInputs : CallIsReadOnly(k, sql)
           \/ \E filename \in Filenames : \E file_type \in FileTypes :
                  CallIsAllowedExtension(k, filename, file_type)
           \/ ValidatorReturns(k)
        /\ UNCHANGED backend

SpecValidators == Init /\ [][NextValidators]_vars

-----------------------------------------------------------------------------
(* Properties of the parser                                                *)

\* the callers whose call of parse has built its result
Parsed == {k \in Callers : frames[k].pc = "done"}

\* the callers whose call of _parse_fields has returned
FieldsParsed == {k \in Callers : frames[k].pc = "fields_done"}

\* C1: parsing the field list "id (int, pk)" yields exactly one field, with
\* name "id", type "int" (the pk flag stripped from the type),
\* primary_key = true and nullable = true.
C1_IdIntPk ==
    \A k \in FieldsParsed :
        frames[k].fields_str = "id (int, pk)" =>
            /\ Len(frames[k].fields) = 1
            /\ frames[k].fields[1].name = "id"
            /\ frames[k].fields[1].type = "int"
            /\ frames[k].fields[1].primary_key
            /\ frames[k].fields[1].nullable

\* C2: the text CREATE TABLE t (a INT, b DECIMAL(10,2) NOT NULL) is extracted
\* as exactly one table t with exactly two fields, a with nullable = true and
\* b with nullable = false; the comma inside DECIMAL(10,2) splits nothing.
C2_SqlTopLevelCommas ==
    \A k \in Parsed :
        frames[k].content = SqlExample =>
            /\ Len(frames[k].result.tables) = 1
            /\ frames[k].result.tables[1].name = "t"
            /\ Len(frames[k].result.tables[1].fields) = 2
            /\ frames[k].result.tables[1].fields[1].name = "a"
            /\ frames[k].result.tables[1].fields[1].nullable
            /\ frames[k].result.tables[1].fields[2].name = "b"
            /\ ~frames[k].result.tables[1].fields[2].nullable

\* the pairs of fields of tables at different positions: <<i, a, j, b>> is
\* field a of table i and field b of the later table j
FieldPairs(tables) ==
    UNION {{<<p[1], a, p[2], b>> : a \in 1..Len(tables[p[1]].fields),
                                   b \in 1..Len(tables[p[2]].fields)} :
              p \in {r \in (1..Len(tables)) \X (1..Len(tables)) : r[1] < r[2]}}

\* the pairs of fields with the same literal name in tables at different
\* positions
SameNamePairs(tables) ==
    {q \in FieldPairs(tables) :
        tables[q[1]].fields[q[2]].name = tables[q[3]].fields[q[4]].name}

\* the relationships hold an implicit one between the two fields of the pair
\* q, with confidence 1.0
ImplicitBetween(relationships, tables, q) ==
    \E n \in 1..Len(relationships) :
        /\ relationships[n].detected = "implicit"
        /\ relationships[n].from_table = tables[q[1]].name
        /\ relationships[n].from_field = tables[q[1]].fields[q[2]].name
        /\ relationships[n].to_table = tables[q[3]].name
        /\ relationships[n].to_field = tables[q[3]].fields[q[4]].name
        /\ relationships[n].confidence = 1000

\* the declared types of the two fields of the pair q are compatible
PairCompatible(tables, q) ==
    _are_types_compatible(tables[q[1]].fields[q[2]].type, tables[q[3]].fields[q[4]].type)

\* C3 as stated: two fields with the same literal name in tables at different
\* positions always give an implicit relationship with confidence 1.0,
\* whatever their declared types.
C3_SameNameWhateverTypes ==
    \A k \in Parsed :
        \A q \in SameNamePairs(frames[k].result.tables) :
            ImplicitBetween(frames[k].result.relationships, frames[k].result.tables, q)

\* C3: two fields with the same literal name in tables at different positions
\* give an implicit relationship with confidence 1.0 when their declared types
\* are compatible; and every implicit relationship between fields of the same
\* literal name has confidence 1.0 and comes from such a pair with compatible
\* types (with incompatible types the score is halved and falls below the
\* threshold).
C3_SameNameCompatibleTypes ==
    \A k \in Parsed :
        /\ \A q \in SameNamePairs(frames[k].result.tables) :
               PairCompatible(frames[k].result.tables, q) =>
                   ImplicitBetween(frames[k].result.relationships,
                                   frames[k].result.tables, q)
        /\ \A n \in 1..Len(frames[k].result.relationships) :
               LET r == frames[k].result.relationships[n]
               IN  r.detected = "implicit" /\ r.from_field = r.to_field =>
                       /\ r.confidence = 1000
                       /\ \E q \in SameNamePairs(frames[k].result.tables) :
                              /\ PairCompatible(frames[k].result.tables, q)
                              /\ frames[k].result.tables[q[1]].name = r.from_table
                              /\ frames[k].result.tables[q[3]].name = r.to_table
                              /\ frames[k].result.tables[q[1]].fields[q[2]].name = r.from_field

\* a parsed schema with a pair of same-named fields of compatible types and a
\* pair of same-named fields of incompatible types
C3_Witness ==
    \E k \in Parsed :
        /\ \E q \in SameNamePairs(frames[k].result.tables) :
               /\ PairCompatible(frames[k].result.tables, q)
               /\ ImplicitBetween(frames[k].result.relationships, frames[k].result.tables, q)
        /\ \E q \in SameNamePairs(frames[k].result.tables) :
               /\ ~PairCompatible(frames[k].result.tables, q)
               /\ ~ImplicitBetween(frames[k].result.relationships, frames[k].result.tables, q)

\* the callers whose call of parse on the end-to-end example has built its
\* result
ParsedExample == {k \in Parsed : frames[k].content = EndToEndExample}

\* C4 as stated: for the end-to-end example the relationships contain an
\* entry from pedidos.usuario_id to usuarios.id.
C4_ExampleHasForeignKeyRelationship ==
    \A k \in ParsedExample :
        \E n \in 1..Len(frames[k].result.relationships) :
            /\ frames[k].result.relationships[n].from_table = "pedidos"
            /\ frames[k].result.relationships[n].from_field = "usuario_id"
            /\ frames[k].result.relationships[n].to_table = "usuarios"
            /\ frames[k].result.relationships[n].to_field = "id"

\* C4: for the end-to-end example the relationships are exactly two implicit
\* ones, both from usuarios.id: to pedidos.id with confidence 1.0 and to
\* pedidos.usuario_id with confidence 0.8.  None leads from
\* pedidos.usuario_id to usuarios.id: the fk->usuarios annotation is recorded
\* only as the reference of the field.
C4_ExampleRelationships ==
    \A k \in ParsedExample :
        /\ frames[k].result.relationships =
              << [from_table |-> "usuarios", from_field |-> "id",
                  to_table |-> "pedidos", to_field |-> "id",
                  type |-> "possible_foreign_key", detected |-> "implicit",
                  confidence |-> 1000],
                 [from_table |-> "usuarios", from_field |-> "id",
                  to_table |-> "pedidos", to_field |-> "usuario_id",
                  type |-> "possible_foreign_key", detected |-> "implicit",
                  confidence |-> 800] >>
        /\ frames[k].result.tables[2].fields[2].name = "usuario_id"
        /\ frames[k].result.tables[2].fields[2].reference = <<"usuarios">>

\* the end-to-end example is parsed and has relationships
C4_Witness ==
    \E k \in ParsedExample : frames[k].result.relationships # <<>>

\* C5: for the end-to-end example parse yields exactly 2 tables in source
\* order, usuarios with 4 fields and pedidos with 4 fields, and the field
\* pedidos.usuario_id has foreign_key = true and reference = "usuarios".
C5_ExampleTables ==
    \A k \in ParsedExample :
        /\ Len(frames[k].result.tables) = 2
        /\ frames[k].result.tables[1].name = "usuarios"
        /\ Len(frames[k].result.tables[1].fields) = 4
        /\ frames[k].result.tables[2].name = "pedidos"
        /\ Len(frames[k].result.tables[2].fields) = 4
        /\ \E n \in 1..4 :
               /\ frames[k].result.tables[2].fields[n].name = "usuario_id"
               /\ frames[k].result.tables[2].fields[n].foreign_key
               /\ frames[k].result.tables[2].fields[n].reference = <<"usuarios">>

\* the end-to-end example is parsed as key-value text and has tables
C5_Witness ==
    \E k \in ParsedExample :
        /\ frames[k].format_type = "key_value"
        /\ frames[k].result.tables # <<>>

\* a table marker begins at position p of s: "tabela:" or "table:" in any
\* case, optional white space, and a name
IsTableMarker(s, p) == Word(s, Spaces(s, AnyLit(s, p, TableMarkers))) # 0

\* the occurrences of a table marker in s from position p on, left to right;
\* an occurrence begins at or after the end of the name of the one before
RECURSIVE MarkerOccurrences(_, _)
MarkerOccurrences(s, p) ==
    LET starts == {q \in p..Len(s) : IsTableMarker(s, q)}
    IN  IF starts = {} THEN <<>>
        ELSE <<Min(starts)>>
                \o MarkerOccurrences(s, Word(s, Spaces(s, AnyLit(s, Min(starts), TableMarkers))))

\* the name of the marker that begins at p
MarkerName(s, p) ==
    SubSeq(s, Spaces(s, AnyLit(s, p, TableMarkers)),
           Word(s, Spaces(s, AnyLit(s, p, TableMarkers))) - 1)

\* a fields marker ("campos:", "fields:", "colunas:" or "columns:" in any
\* case) begins somewhere in s[a..b]
HasFieldsMarker(s, a, b) ==
    \E p \in a..b : \E l \in FieldMarkers : LitAt(s, p, l)

\* the callers whose last extraction strategy was the key-value one; their
\* tables are what it returned
KeyValueExtracted ==
    {k \in Callers : /\ frames[k].pc \in {"relationships", "fallback"}
                     /\ frames[k].tried # <<>>
                     /\ frames[k].tried[Len(frames[k].tried)] = "key_value"}

\* C6: for a text with N occurrences of a table marker the key-value
\* extractor yields exactly N tables, one per marker in order of occurrence,
\* each named by its marker; a marker with no fields marker before the next
\* table marker (or the end of the text) yields a table with no fields.
C6_OneTablePerMarker ==
    \A k \in KeyValueExtracted :
        LET occurrences == MarkerOccurrences(frames[k].content, 1)
        IN  /\ Len(frames[k].tables) = Len(occurrences)
            /\ \A i \in 1..Len(occurrences) :
                   /\ frames[k].tables[i].name = MarkerName(frames[k].content, occurrences[i])
                   /\ ~HasFieldsMarker(frames[k].content, occurrences[i],
                                       IF i < Len(occurrences) THEN occurrences[i + 1] - 1
                                       ELSE Len(frames[k].content))
                          => frames[k].tables[i].fields = <<>>

\* the key-value extractor ran on a text with several markers, one with
\* fields and one without
C6_Witness ==
    \E k \in KeyValueExtracted :
        /\ Len(frames[k].tables) >= 2
        /\ \E i \in 1..Len(frames[k].tables) : frames[k].tables[i].fields = <<>>
        /\ \E i \in 1..Len(frames[k].tables) : frames[k].tables[i].fields # <<>>

\* the parenthesis depth at position i of s: the "(" before it minus the ")"
\* before it, as paren_depth counts them (a ")" with no "(" lowers it below
\* zero)
Depth(s, i) ==
    Cardinality({j \in 1..(i - 1) : Ch(s, j) = "("})
        - Cardinality({j \in 1..(i - 1) : Ch(s, j) = ")"})

\* the commas of s at depth zero
TopLevelCommas(s) == {i \in 1..Len(s) : Ch(s, i) = "," /\ Depth(s, i) = 0}

\* the n-th boundary of s: 0, the commas at depth zero in order, Len(s) + 1
Boundary(s, n) ==
    IF n = 0 THEN 0
    ELSE IF n > Cardinality(TopLevelCommas(s)) THEN Len(s) + 1
    ELSE CHOOSE c \in TopLevelCommas(s) :
            Cardinality({d \in TopLevelCommas(s) : d < c}) = n - 1

\* s cut at its commas of depth zero and at no other place, each fragment
\* stripped; nothing follows the last comma when the text ends there
TopLevelFragments(s) ==
    [n \in 1..(Cardinality(TopLevelCommas(s))
                 + (IF Boundary(s, Cardinality(TopLevelCommas(s))) < Len(s) THEN 1 ELSE 0)) |->
        strip(SubSeq(s, Boundary(s, n - 1) + 1, Boundary(s, n) - 1))]

\* C7: _smart_split_fields cuts a field list at its commas of parenthesis
\* depth zero and nowhere else, so that "ANO (NUMBER(5,0))" yields exactly
\* one fragment and exactly one field, named ANO.
C7_SplitsOnlyAtDepthZero ==
    \A k \in FieldsParsed :
        /\ frames[k].field_parts = TopLevelFragments(strip(frames[k].fields_str))
        /\ frames[k].fields_str = "ANO (NUMBER(5,0))" =>
               /\ Len(frames[k].field_parts) = 1
               /\ Len(frames[k].fields) = 1
               /\ frames[k].fields[1].name = "ANO"

\* a field list with a comma inside parentheses and a comma outside was split
C7_Witness ==
    \E k \in FieldsParsed :
        /\ TopLevelCommas(strip(frames[k].fields_str)) # {}
        /\ \E i \in 1..Len(frames[k].fields_str) :
               Ch(frames[k].fields_str, i) = "," /\ Depth(frames[k].fields_str, i) > 0

\* a CREATE TABLE <name> ( pattern occurs in s
HasCreateTable(s) ==
    \E p \in 1..Len(s) :
        Lit(s, Spaces(s, Word(s, Spaces1(s, Lit(s, Spaces1(s, Lit(s, p, "CREATE")),
                                                  "TABLE")))), "(") # 0

\* a heading naming a table occurs in s: "#" signs, then a table marker
HasTableHeading(s) ==
    \E p \in 1..Len(s) :
        Ch(s, p) = "#" /\ IsTableMarker(s, Spaces(s, SkipWhile(s, p, {"#"})))

\* a fields marker followed, after optional white space, by some text on a
\* line occurs in s
HasFieldsText(s) ==
    \E p \in 1..Len(s) : \E l \in FieldMarkers :
        /\ LitAt(s, p, l)
        /\ \E q \in (p + Len(l))..Len(s) :
               /\ Ch(s, q) # "\n"
               /\ \A j \in (p + Len(l))..(q - 1) : Ch(s, j) \in SpaceChars

\* the format of the trimmed text s by the decision order of C8
FormatByPriority(s) ==
    IF HasCreateTable(s) THEN "sql_ddl"
    ELSE IF HasTableHeading(s) THEN "markdown"
    ELSE IF (\E p \in 1..Len(s) : IsTableMarker(s, p)) /\ HasFieldsText(s) THEN "key_value"
    ELSE "unknown"

\* the callers whose call of parse has detected the format
Detected ==
    {k \in Callers : frames[k].pc \notin {"idle", "detect", "fields_done", "validated", "normalized"}}

\* C8: the detected format of a text (trimmed) is sql_ddl if a
\* CREATE TABLE <name> ( pattern occurs anywhere; otherwise markdown if a
\* heading naming a table occurs; otherwise key_value if both a table marker
\* and a fields marker occur; otherwise unknown.  A text with both a
\* CREATE TABLE pattern and key-value markers is sql_ddl.
C8_FormatByPriority ==
    \A k \in Detected : frames[k].format_type = FormatByPriority(strip(frames[k].content))

\* a text with a CREATE TABLE pattern and with key-value markers was detected
C8_Witness ==
    \E k \in Detected :
        /\ HasCreateTable(frames[k].content)
        /\ \E p \in 1..Len(frames[k].content) : IsTableMarker(frames[k].content, p)
        /\ HasFieldsText(frames[k].content)
        /\ frames[k].format_type = "sql_ddl"

\* C9, for caller k: when the format is unknown a strategy runs only as the
\* next one of key_value, sql_ddl, markdown, and after the first only when
\* the strategies before it found no table; what it finds is what the
\* extraction holds; and the extraction is over exactly when a strategy has
\* found a table or all three have run.
FallbackInOrder(k) ==
    /\ frames'[k].format_type \notin KnownFormats /\ frames'[k].tried # frames[k].tried
       /\ frames'[k].tried # <<>> =>
           /\ frames'[k].tried = SubSeq(FallbackOrder, 1, Len(frames[k].tried) + 1)
           /\ frames[k].tried # <<>> => frames[k].tables = <<>> /\ frames[k].pc = "fallback"
           /\ frames'[k].tables
                = ExtractByFormat(frames'[k].content, FallbackOrder[Len(frames'[k].tried)])
           /\ frames'[k].pc = "relationships"
                <=> (frames'[k].tables # <<>> \/ frames'[k].tried = FallbackOrder)
           /\ frames'[k].pc # "relationships" => frames'[k].pc = "fallback"
    /\ frames'[k].format_type \notin KnownFormats /\ frames[k].pc = "relationships" =>
           frames'[k].tried = frames[k].tried

\* C9: when the detected format is unknown, table extraction tries the
\* key_value strategy, then sql_ddl, then markdown, in that order, and
\* returns the result of the first strategy that yields at least one table
\* (an empty list if none does); a later strategy is never run once an
\* earlier one has yielded a table.
C9_FallbackOrder == [][\A k \in Callers : FallbackInOrder(k)]_vars

\* with the format unknown the first strategy found a table and the
\* extraction ended there
C9_Witness ==
    \E k \in Callers :
        /\ frames[k].format_type = "unknown"
        /\ frames[k].pc = "relationships"
        /\ frames[k].tried = <<"key_value">>
        /\ frames[k].tables # <<>>

\* C10: whatever other calls run on the same parser in between, a call of
\* parse returns the tables, fields and relationships (and metadata) of a
\* single isolated call on its input.
C10_ResultDependsOnInputOnly ==
    \A k \in Parsed : frames[k].result = parse(frames[k].content)

\* two calls on the same parser, on different texts, have both built their
\* results
C10_Witness ==
    \E k \in Parsed : \E j \in Parsed :
        /\ k # j
        /\ frames[k].content # frames[j].content
        /\ frames[k].result.tables # <<>>

\* generate has returned to the route, or the route has answered
Generated == backend.pc \in {"route", "answered"}

\* the LLM answered and no JSON object can be drawn from the answer
Unparseable(response_text) ==
    \/ response_text.whole.t = "other"
    \/ /\ response_text.whole.t = "invalid"
       /\ response_text.fenced.t # "obj"
       /\ response_text.braces.t # "obj"

\* a confidence that is no number, or a number outside [0, 1]
BadConfidence(confidence) ==
    \/ confidence.t = "null"
    \/ confidence.t = "num" /\ (confidence.n < 0 \/ confidence.n > 1000)
    \/ confidence.t = "str" /\ confidence.s \notin {"0.5"}

\* C11: generate never propagates an exception and always returns a response
\* with sql, explanation and a confidence within [0, 1]; the confidence is
\* 0.0 when the LLM is not configured, when no structure is loaded, when the
\* LLM call fails, and when the answer is unparseable or carries an
\* out-of-range or non-numeric confidence; the route answers 200 in all
\* these cases.
C11_GenerateAlwaysResponds ==
    /\ Generated =>
           /\ backend.outcome.raised = ""
           /\ backend.outcome.sql # ""
           /\ backend.outcome.explanation # ""
           /\ backend.outcome.confidence >= 0 /\ backend.outcome.confidence <= 1000
           /\ \/ ~backend.llm
              \/ backend.structure = NoStructure
              \/ backend.failed
              \/ Unparseable(backend.response_text)
              \/ BadConfidence(_parse_llm_response(backend.response_text).confidence)
              => backend.outcome.confidence = 0
    /\ backend.pc = "answered" => backend.status_code = 200

\* the final score of the pair q of fields
PairScore(tables, q) ==
    _calculate_field_similarity(tables[q[1]].fields[q[2]].name, tables[q[3]].fields[q[4]].name,
                                tables[q[1]].fields[q[2]].type, tables[q[3]].fields[q[4]].type)

\* the positions of the implicit relationships in a list of relationships
ImplicitAt(relationships) ==
    {n \in 1..Len(relationships) : relationships[n].detected = "implicit"}

\* the relationship r joins the two fields of the pair q, in that direction
Joins(r, tables, q) ==
    /\ r.from_table = tables[q[1]].name
    /\ r.from_field = tables[q[1]].fields[q[2]].name
    /\ r.to_table = tables[q[3]].name
    /\ r.to_field = tables[q[3]].fields[q[4]].name

\* C12: every implicit relationship of a parsed schema has type
\* possible_foreign_key, detected = implicit and a confidence c with
\* 0.7 <= c <= 1.0, which is the final score of the field pair it joins; the
\* implicit relationships are as many as the field pairs whose final score
\* reaches 0.7, so no pair with a lower score produces one.
C12_ImplicitConfidence ==
    \A k \in Parsed :
        /\ \A n \in ImplicitAt(frames[k].result.relationships) :
               /\ frames[k].result.relationships[n].type = "possible_foreign_key"
               /\ frames[k].result.relationships[n].confidence >= 700
               /\ frames[k].result.relationships[n].confidence <= 1000
               /\ \E q \in FieldPairs(frames[k].result.tables) :
                      /\ Joins(frames[k].result.relationships[n], frames[k].result.tables, q)
                      /\ PairScore(frames[k].result.tables, q)
                            = frames[k].result.relationships[n].confidence
        /\ Cardinality(ImplicitAt(frames[k].result.relationships))
              = Cardinality({q \in FieldPairs(frames[k].result.tables) :
                                PairScore(frames[k].result.tables, q) >= 700})

\* a parsed schema with an implicit relationship of confidence below 1.0 and
\* with a field pair of a positive score below 0.7
C12_Witness ==
    \E k \in Parsed :
        /\ \E n \in ImplicitAt(frames[k].result.relationships) :
               frames[k].result.relationships[n].confidence < 1000
        /\ \E q \in FieldPairs(frames[k].result.tables) :
               /\ PairScore(frames[k].result.tables, q) > 0
               /\ PairScore(frames[k].result.tables, q) < 700

\* the positions of the tables that have a non-empty name
Named(tables) == {n \in 1..Len(tables) : "name" \in DOMAIN tables[n] /\ tables[n].name # ""}

\* the tables at the positions P, in their order
Keeping(tables, P) ==
    [n \in 1..Cardinality(P) |->
        tables[CHOOSE p \in P : Cardinality({r \in P : r < p}) = n - 1]]

\* C13: validation removes exactly the tables whose name is empty or
\* missing: what it returns is the tables with a non-empty name, those
\* without fields included, in their order; and the schema returned by parse
\* holds the extracted tables so validated, each with a non-empty name, and
\* the relationships as they were before validation.
C13_ValidationDropsUnnamedOnly ==
    \A k \in Callers :
        /\ frames[k].pc = "validated" =>
               frames[k].validated = Keeping(frames[k].tables, Named(frames[k].tables))
        /\ frames[k].pc = "done" =>
               /\ frames[k].result.tables = Keeping(frames[k].tables, Named(frames[k].tables))
               /\ \A n \in 1..Len(frames[k].result.tables) : frames[k].result.tables[n].name # ""
               /\ frames[k].result.relationships = frames[k].relationships

\* validation was handed a table without a name between two named ones, one
\* of them without fields, and kept these two
C13_Witness ==
    \E k \in Callers :
        /\ frames[k].pc = "validated"
        /\ Len(frames[k].tables) = 3
        /\ Named(frames[k].tables) = {1, 3}
        /\ frames[k].tables[1].fields = <<>>
        /\ Len(frames[k].validated) = 2

\* the callers whose explicit relationships have been extracted and are not
\* yet joined by the implicit ones
ExplicitExtracted == {k \in Callers : frames[k].pc = "implicit"}

\* C14: the list returned by _extract_relationships holds no two entries
\* with the same (from_table, from_field, to_table, to_field).
C14_ExplicitDeduplicated ==
    \A k \in ExplicitExtracted :
        \A n, o \in 1..Len(frames[k].relationships) :
            RelKey(frames[k].relationships[n]) = RelKey(frames[k].relationships[o])
                => n = o

\* the implicit relationships of a list of relationships, in their order
ImplicitOf(relationships) == SelectSeq(relationships, LAMBDA r : r.detected = "implicit")

\* the field pairs whose final score reaches the threshold
Qualifying(tables) == {q \in FieldPairs(tables) : PairScore(tables, q) >= SimilarityThreshold}

\* the pair q is examined before the pair r: the loops run over the first
\* table, the later table, the field of the first, the field of the later
ExaminedBefore(q, r) ==
    \/ q[1] < r[1]
    \/ q[1] = r[1] /\ q[3] < r[3]
    \/ q[1] = r[1] /\ q[3] = r[3] /\ q[2] < r[2]
    \/ q[1] = r[1] /\ q[3] = r[3] /\ q[2] = r[2] /\ q[4] < r[4]

\* the n-th pair of S in the order of examination
NthExamined(S, n) ==
    CHOOSE q \in S : Cardinality({r \in S : ExaminedBefore(r, q)}) = n - 1

\* no two tables of the list have the same name
DistinctNames(tables) ==
    \A i, j \in 1..Len(tables) : tables[i].name = tables[j].name => i = j

\* C15 as stated: no implicit relationship of a parsed schema has from_table
\* equal to to_table, and no two of them join the same two fields, in the
\* same or in the opposite direction.
C15_ImplicitDistinctTables ==
    \A k \in Parsed :
        LET implicit == ImplicitOf(frames[k].result.relationships)
        IN  \A n \in 1..Len(implicit) :
                /\ implicit[n].from_table # implicit[n].to_table
                /\ \A o \in 1..Len(implicit) :
                       /\ RelKey(implicit[n]) = RelKey(implicit[o]) => n = o
                       /\ RelKey(implicit[n]) # <<implicit[o].to_table, implicit[o].to_field,
                                                  implicit[o].from_table, implicit[o].from_field>>

\* C15 (amended): the implicit relationships of a parsed schema are, in the
\* order of examination, one for each pair of a field of a table and a field
\* of a table at a later position whose score reaches the threshold, from the
\* earlier table to the later one; when no two tables have the same name, none
\* has from_table equal to to_table and none is the reverse of another.
C15_ImplicitDistinctPositions ==
    \A k \in Parsed :
        LET implicit == ImplicitOf(frames[k].result.relationships)
            examined == Qualifying(frames[k].tables)
        IN  /\ Len(implicit) = Cardinality(examined)
            /\ \A n \in 1..Len(implicit) :
                   Joins(implicit[n], frames[k].tables, NthExamined(examined, n))
            /\ DistinctNames(frames[k].tables) =>
                   \A n, o \in 1..Len(implicit) :
                       /\ implicit[n].from_table # implicit[n].to_table
                       /\ RelKey(implicit[n]) # <<implicit[o].to_table, implicit[o].to_field,
                                                  implicit[o].from_table, implicit[o].from_field>>

\* a parsed schema of two tables with different names and several implicit
\* relationships between them
C15_Witness ==
    \E k \in Parsed :
        /\ Len(frames[k].tables) = 2
        /\ DistinctNames(frames[k].tables)
        /\ Len(ImplicitOf(frames[k].result.relationships)) >= 2

\* the positions of the fragments that are not empty
NonEmptyAt(fragments) == {n \in 1..Len(fragments) : fragments[n] # ""}

\* the field a fragment stands for: its name is the leading word before
\* "(...)", else the text before the first white space, with no flag, else
\* the whole fragment, which then has type "unknown" and no flag
FragmentDescribes(fragment, field) ==
    IF match_with_parens(fragment).start # 0
    THEN field.name = SubSeq(fragment, 1, SkipWhile(fragment, 1, WordChars) - 1)
    ELSE IF \E i \in 1..Len(fragment) : Ch(fragment, i) \in SpaceChars
    THEN /\ field.name = SubSeq(fragment, 1, SkipUntil(fragment, 1, SpaceChars) - 1)
         /\ ~field.primary_key /\ ~field.foreign_key /\ field.nullable
         /\ field.reference = <<>>
    ELSE field = Field(fragment, "unknown", FALSE, FALSE, TRUE, <<>>)

\* C16: _parse_fields returns exactly one field for each top-level fragment
\* that is not empty after trimming, in the order of the fragments; a fragment
\* that is neither NAME (REST) nor NAME TYPE gives a field with that name,
\* type "unknown", no flag, nullable; an empty fragment gives nothing.
C16_OneFieldPerFragment ==
    \A k \in FieldsParsed :
        LET fragments == TopLevelFragments(strip(frames[k].fields_str))
            kept      == Keeping(fragments, NonEmptyAt(fragments))
        IN  /\ Len(frames[k].fields) = Len(kept)
            /\ \A n \in 1..Len(kept) : FragmentDescribes(kept[n], frames[k].fields[n])

\* a field list with an empty fragment and a bare name was parsed
C16_Witness ==
    \E k \in FieldsParsed :
        /\ \E n \in 1..Len(TopLevelFragments(strip(frames[k].fields_str))) :
               TopLevelFragments(strip(frames[k].fields_str))[n] = ""
        /\ \E n \in 1..Len(frames[k].fields) : frames[k].fields[n].type = "unknown"

\* the callers whose text was extracted as SQL DDL, after the extraction
SqlExtracted ==
    {k \in Callers : /\ frames[k].pc \in {"relationships", "implicit", "metadata", "validate", "done"}
                     /\ frames[k].format_type = "sql_ddl"}

\* the closing parentheses that match the one opened just before start: the
\* ")" from start on before which as many "(" as ")" occur
MatchingClose(s, start) ==
    {e \in start..Len(s) :
        /\ Ch(s, e) = ")"
        /\ Cardinality({j \in start..(e - 1) : Ch(s, j) = "("})
              = Cardinality({j \in start..(e - 1) : Ch(s, j) = ")"})}

\* the text between the parenthesis opened just before start and the ")"
\* that matches it; nothing when no ")" matches it
MatchingBlock(s, start) ==
    IF MatchingClose(s, start) = {} THEN ""
    ELSE SubSeq(s, start, Min(MatchingClose(s, start)) - 1)

\* C17: for each CREATE TABLE <name> ( of the text, the column block handed
\* to the SQL field parser is the text between that parenthesis and the ")"
\* that matches it: a nested ")" does not end the block and nothing after the
\* matching ")" is in it.  The tables extracted are those of these blocks.
C17_SqlBlockEndsAtMatchingParen ==
    \A k \in SqlExtracted :
        LET content        == frames[k].content
            create_matches == finditer(create_table_pattern(content))
        IN  /\ \A i \in 1..Len(create_matches) :
                   SqlFieldsBlock(content, create_matches[i].end)
                       = MatchingBlock(content, create_matches[i].end)
            /\ frames[k].tables =
                   [i \in 1..Len(create_matches) |->
                       Table(create_matches[i].groups[1],
                             _parse_sql_fields(MatchingBlock(content, create_matches[i].end)))]

\* a CREATE TABLE whose block holds a nested ")" and is followed by more
\* text was extracted
C17_Witness ==
    \E k \in SqlExtracted :
        \E p \in 1..Len(frames[k].content) :
            LET m == create_table_pattern(frames[k].content)[p]
            IN  /\ m.start # 0
                /\ MatchingClose(frames[k].content, m.end) # {}
                /\ Contains(MatchingBlock(frames[k].content, m.end), ")")
                /\ Min(MatchingClose(frames[k].content, m.end)) + 2 < Len(frames[k].content)

\* the callers whose call of DatabaseInspector._normalize_type has returned
TypeNormalized == {k \in Callers : frames[k].pc = "normalized"}

\* the number of letters a declared type begins with
LeadingLetters(declared) ==
    Max({n \in 0..Len(declared) :
            \A i \in 1..n : Ch(declared, i) \in CharsOf(LowerLetters) \cup CharsOf(UpperLetters)})

\* the canonical image of a declared type: the canonical name of its leading
\* alphabetic token when the table knows it, in any letter case, the declared
\* type in lower case otherwise
TypeNormalizerImage(declared) ==
    IF upper(SubSeq(declared, 1, LeadingLetters(declared))) \in DOMAIN TYPE_MAPPING
    THEN TYPE_MAPPING[upper(SubSeq(declared, 1, LeadingLetters(declared)))]
    ELSE lower(declared)

\* a fragment that declares a type, as NAME (REST) or as NAME TYPE
DeclaresType(fragment) ==
    \/ match_with_parens(fragment).start # 0
    \/ \E i \in 1..Len(fragment) : Ch(fragment, i) \in SpaceChars

\* the type text a fragment declares: REST of NAME (REST), TYPE of NAME TYPE
DeclaredType(fragment) ==
    IF match_with_parens(fragment).start # 0
    THEN strip(match_with_parens(fragment).groups[2])
    ELSE strip(SubSeq(fragment, SkipUntil(fragment, 1, SpaceChars), Len(fragment)))

\* the declared text is kept whole: it begins with one of the type prefixes
\* or holds none of the flag keywords
KeptWhole(declared) ==
    \/ \E prefix \in SqlTypePrefixes : StartsAt(upper(declared), 1, prefix)
    \/ \A n \in 1..Len(keywords_to_remove) : ~Contains(lower(declared), keywords_to_remove[n])

\* every field type of the tables is P
AllTypes(tables, P(_)) ==
    \A i \in 1..Len(tables) : \A j \in 1..Len(tables[i].fields) : P(tables[i].fields[j].type)

\* C18 as stated: every field type the parser emits, in the general and in
\* the SQL DDL dialect, is the canonical image of the declared type: INT, int
\* and Integer give int, VARCHAR(50) gives varchar, an unknown type is in
\* lower case.
C18_TypesAreCanonical ==
    /\ \A k \in FieldsParsed :
           LET fragments == TopLevelFragments(strip(frames[k].fields_str))
               kept      == Keeping(fragments, NonEmptyAt(fragments))
           IN  \A n \in 1..Len(kept) :
                   DeclaresType(kept[n]) /\ n <= Len(frames[k].fields) =>
                       frames[k].fields[n].type = TypeNormalizerImage(DeclaredType(kept[n]))
    /\ \A k \in Parsed :
           AllTypes(frames[k].result.tables, LAMBDA t : t = TypeNormalizerImage(t))

\* C18 (amended): the parser does not map types to canonical names.  In the
\* general dialect a declared type that begins with a type prefix or holds no
\* flag keyword is emitted as written, letter case and parameters kept, runs
\* of white space collapsed; in the SQL DDL dialect the types are in upper
\* case.  The canonical image is what DatabaseInspector._normalize_type gives
\* for the column types read from a database.
C18_CanonicalOnlyFromInspector ==
    /\ \A k \in FieldsParsed :
           LET fragments == TopLevelFragments(strip(frames[k].fields_str))
               kept      == Keeping(fragments, NonEmptyAt(fragments))
           IN  \A n \in 1..Len(kept) :
                   DeclaresType(kept[n]) /\ KeptWhole(DeclaredType(kept[n])) =>
                       frames[k].fields[n].type =
                           IF DeclaredType(kept[n]) = "" THEN "unknown"
                           ELSE join(" ", split_ws(DeclaredType(kept[n])))
    /\ \A k \in SqlExtracted : AllTypes(frames[k].tables, LAMBDA t : t = upper(t))
    /\ \A k \in TypeNormalized :
           frames[k].normalized_type = TypeNormalizerImage(frames[k].sql_type)

\* a field list was parsed whose field keeps the declared NUMBER(5,0), which
\* is not its canonical image
C18_Witness ==
    \E k \in FieldsParsed :
        \E n \in 1..Len(frames[k].fields) :
            /\ frames[k].fields[n].type = "NUMBER(5,0)"
            /\ TypeNormalizerImage("NUMBER(5,0)") = "number(5,0)"

\* the family of a declared type: numeric, string or date when the leading
\* word of the type, in upper case, is one of that family, the leading word
\* itself otherwise
TypeFamily(type) ==
    LET base == upper(SubSeq(type, 1, SkipWhile(type, 1, WordChars) - 1))
    IN  IF base \in {"NUMBER", "INTEGER", "INT", "DECIMAL", "NUMERIC", "FLOAT"} THEN "numeric family"
        ELSE IF base \in {"VARCHAR", "VARCHAR2", "CHAR", "TEXT", "STRING"} THEN "string family"
        ELSE IF base \in {"DATE", "DATETIME", "TIMESTAMP"} THEN "date family"
        ELSE IF base = "" THEN upper(type)
        ELSE base

\* the score of the names of the pair q alone
PairNameScore(tables, q) ==
    NameScore(tables[q[1]].fields[q[2]].name, tables[q[3]].fields[q[4]].name)

\* the two fields of the pair q have types of the same family
SameTypeFamily(tables, q) ==
    TypeFamily(tables[q[1]].fields[q[2]].type) = TypeFamily(tables[q[3]].fields[q[4]].type)

\* C19: for every pair of fields the final score is the name score when the
\* base types are identical or of the same family (numeric, string, date)
\* and half the name score otherwise; so every pair that gives an implicit
\* relationship has compatible types.
C19_TypesOnlyHalve ==
    \A k \in Parsed :
        /\ \A q \in FieldPairs(frames[k].tables) :
               IF SameTypeFamily(frames[k].tables, q)
               THEN PairScore(frames[k].tables, q) = PairNameScore(frames[k].tables, q)
               ELSE 2 * PairScore(frames[k].tables, q) = PairNameScore(frames[k].tables, q)
        /\ LET implicit == ImplicitOf(frames[k].result.relationships)
               examined == Qualifying(frames[k].tables)
           IN  \A n \in 1..Len(implicit) :
                   /\ Joins(implicit[n], frames[k].tables, NthExamined(examined, n))
                   /\ SameTypeFamily(frames[k].tables, NthExamined(examined, n))

\* a parsed schema with a pair of equally named fields of incompatible types,
\* whose score was halved, and an implicit relationship between fields of
\* different types of one family
C19_Witness ==
    \E k \in Parsed :
        /\ \E q \in FieldPairs(frames[k].tables) :
               /\ ~SameTypeFamily(frames[k].tables, q)
               /\ PairScore(frames[k].tables, q) = 500
        /\ \E q \in Qualifying(frames[k].tables) :
               /\ frames[k].tables[q[1]].fields[q[2]].type # frames[k].tables[q[3]].fields[q[4]].type
               /\ ImplicitBetween(frames[k].result.relationships, frames[k].tables, q)

\* the headers of a relationships section, as rel_section_pattern accepts
\* them
RelationshipHeaders == {"RELACIONAMENTOS:", "RELATIONSHIPS:"}

\* where the own block of the i-th table marker ends: before the next
\* marker, or for the last marker before the first relationships header after
\* it, or with the text
OwnBlockEnd(s, occurrences, i) ==
    LET headers == {p \in occurrences[i]..Len(s) : AnyLit(s, p, RelationshipHeaders) # 0}
    IN  IF i < Len(occurrences) THEN occurrences[i + 1] - 1
        ELSE IF headers # {} THEN Min(headers) - 1
        ELSE Len(s)

\* C20: in key-value extraction the fields of a table are those of its own
\* block: the text from its marker to the next table marker, or for the last
\* marker to the relationships header, relacionamentos: or relationships:,
\* when there is one; a fields marker after the header is not read as the
\* fields of the last table.
C20_FieldsFromOwnBlock ==
    \A k \in KeyValueExtracted :
        LET content     == frames[k].content
            occurrences == MarkerOccurrences(content, 1)
        IN  \A i \in 1..Len(occurrences) :
                i <= Len(frames[k].tables) =>
                    frames[k].tables[i].fields =
                        BlockFields(SubSeq(content, occurrences[i],
                                           OwnBlockEnd(content, occurrences, i)))

\* s holds nothing that names a table: no table marker, no CREATE TABLE, no
\* table heading
Unrecognizable(s) ==
    /\ ~\E p \in 1..Len(s) : IsTableMarker(s, p)
    /\ ~HasCreateTable(s)
    /\ ~HasTableHeading(s)

\* C21: parse ends with a schema on unrecognizable and on malformed input:
\* for the empty text and for a text with no table marker, no CREATE TABLE
\* and no table heading the schema has no tables and detected_format unknown;
\* a CREATE TABLE whose parenthesis is never closed gives a table with no
\* fields, and every CREATE TABLE of the text, the later ones included, gives
\* its table.
C21_ParseToleratesMalformedInput ==
    \A k \in Parsed :
        /\ Unrecognizable(frames[k].content) =>
               /\ frames[k].result.tables = <<>>
               /\ frames[k].result.metadata.detected_format = "unknown"
        /\ HasCreateTable(strip(frames[k].content)) =>
               LET create_matches == finditer(create_table_pattern(frames[k].content))
               IN  /\ Len(frames[k].result.tables) = Len(create_matches)
                   /\ \A i \in 1..Len(create_matches) :
                          /\ frames[k].result.tables[i].name = create_matches[i].groups[1]
                          /\ MatchingClose(frames[k].content, create_matches[i].end) = {}
                                => frames[k].result.tables[i].fields = <<>>
                          /\ MatchingClose(frames[k].content, create_matches[i].end) # {}
                                => frames[k].result.tables[i].fields =
                                       _parse_sql_fields(MatchingBlock(frames[k].content,
                                                                       create_matches[i].end))

\* a text was parsed whose first CREATE TABLE is never closed and whose
\* later CREATE TABLE gave a table with fields
C21_Witness ==
    \E k \in Parsed :
        LET create_matches == finditer(create_table_pattern(frames[k].content))
        IN  /\ Len(create_matches) = 2
            /\ MatchingClose(frames[k].content, create_matches[1].end) = {}
            /\ frames[k].result.tables[1].fields = <<>>
            /\ frames[k].result.tables[2].fields # <<>>

\* C29: in the general dialect a fragment NAME (REST) whose REST holds
\* "not null", in any letter case, gives a field with nullable = false,
\* with or without a pk or fk flag; a field of such a fragment has
\* nullable = true only when REST holds no "not null".
C29_NotNullIsNotNullable ==
    \A k \in FieldsParsed :
        LET fragments == TopLevelFragments(strip(frames[k].fields_str))
            kept      == Keeping(fragments, NonEmptyAt(fragments))
        IN  \A n \in 1..Len(kept) :
                /\ n <= Len(frames[k].fields)
                /\ match_with_parens(kept[n]).start # 0
                /\ Contains(lower(match_with_parens(kept[n]).groups[2]), "not null")
                => ~frames[k].fields[n].nullable

\* C30: the detected format and the tables of a parsed schema agree: a
\* schema with detected_format key_value, sql_ddl or markdown has at least one
\* table, and a schema with no table has detected_format unknown.
C30_FormatAgreesWithTables ==
    \A k \in Parsed :
        /\ frames[k].result.metadata.detected_format \in KnownFormats
              => Len(frames[k].result.tables) >= 1
        /\ frames[k].result.tables = <<>>
              => frames[k].result.metadata.detected_format = "unknown"

\* a text with a table heading was parsed as markdown and gave a table
C30_Witness ==
    \E k \in Parsed :
        /\ frames[k].result.metadata.detected_format = "markdown"
        /\ HasTableHeading(frames[k].content)
        /\ Len(frames[k].result.tables) >= 1

\* C26: a request whose question is the empty string is answered with an
\* error status, 422 or 500, never with 200.
C26_EmptyQuestionRejected ==
    backend.pc = "answered" /\ backend.question = "" => backend.status_code \in {422, 500}

\* what the last of a list of StructureManager calls leaves in the slot: the
\* structure of a set_structure, None after a clear_structure or no call
LastWrite(calls) ==
    IF calls = <<>> THEN NoStructure
    ELSE IF calls[Len(calls)].op = "clear_structure" THEN NoStructure
    ELSE calls[Len(calls)].structure

\* C22: the current structure is one slot and the last write wins: after any
\* interleaving of uploads and clear_structure calls get_structure returns
\* the structure of the most recent set_structure when no clear_structure
\* came after it and None otherwise; has_structure is true, and
\* get_structure_summary reports loaded, exactly when get_structure is not
\* None.
C22_LastWriteWins ==
    /\ get_structure(backend._current_structure) = LastWrite(backend.calls)
    /\ has_structure(backend._current_structure)
          = (get_structure(backend._current_structure) # NoStructure)
    /\ get_structure_summary(backend._current_structure).loaded
          = (get_structure(backend._current_structure) # NoStructure)

\* two uploads stored different structures one after the other, the second
\* while the first had not yet returned, and the slot holds the second
C22_Witness ==
    /\ Len(backend.calls) >= 2
    /\ backend.calls[1].op = "set_structure"
    /\ backend.calls[2].op = "set_structure"
    /\ backend.calls[1].structure # backend.calls[2].structure
    /\ backend.calls[1].by # backend.calls[2].by
    /\ backend.requests[backend.calls[1].by].pc = "return"
    /\ Len(backend.calls) = 2
    /\ backend._current_structure = backend.calls[2].structure

\* the requests that were answered 500
FailedUploads == {r \in UploadIds : backend.requests[r].status_code = 500}

\* C28: a failed upload leaves the current structure as it was: a request
\* that is answered 500, whichever step of upload_text_structure,
\* upload_image_structure or connect_and_load_database raised, has made no
\* call of StructureManager, and when no other request has made one since it
\* arrived the slot holds what it held on arrival, a structure or None.
C28_FailedUploadKeepsStructure ==
    \A r \in FailedUploads :
        /\ \A n \in (backend.requests[r].mark + 1)..Len(backend.calls) :
               backend.calls[n].by # r
        /\ Len(backend.calls) = backend.requests[r].mark
              => backend._current_structure = backend.requests[r].before

\* an upload that arrived when a structure was loaded failed in its last
\* step while no other request touched the slot, which still holds it
C28_Witness ==
    \E r \in FailedUploads :
        /\ backend.requests[r].before # NoStructure
        /\ backend.requests[r].step = Len(UploadSteps[backend.requests[r].handler])
        /\ Len(backend.calls) = backend.requests[r].mark
        /\ backend._current_structure = backend.requests[r].before

-----------------------------------------------------------------------------
(* Properties of the validators                                            *)

\* the number of '(' less the number of ')' among the first n characters
ParenDepth(sql, n) == count(SubSeq(sql, 1, n), "(") - count(SubSeq(sql, 1, n), ")")

\* every ')' closes an earlier '(' and every '(' is closed
ParenthesesBalanced(sql) ==
    /\ \A n \in 0..Len(sql) : ParenDepth(sql, n) >= 0
    /\ ParenDepth(sql, Len(sql)) = 0

QuotesBalanced(sql) == count(sql, "'") % 2 = 0 /\ count(sql, "\"") % 2 = 0

\* C23: validate_syntax rejects every non-empty query whose parentheses
\* are not balanced (a ')' without an earlier unmatched '(', or a '(' that
\* is never closed) with the message about parentheses, and returns
\* (True, None) only when parentheses and both kinds of quotes are balanced.
C23_UnbalancedParenthesesRejected ==
    \A k \in Callers :
        frames[k].pc = "syntax_checked" =>
            /\ (frames[k].sql # "" /\ ~ParenthesesBalanced(frames[k].sql))
                   => frames[k].syntax = <<FALSE, <<"Parênteses não balanceados">>>>
            /\ frames[k].syntax = <<TRUE, <<>>>>
                   => ParenthesesBalanced(frames[k].sql) /\ QuotesBalanced(frames[k].sql)

\* the statements of a query: the non-empty trimmed texts between ';'
StatementsOf(sql) ==
    LET pieces == split_on(sql, ";")
    IN  {strip(pieces[i]) : i \in 1..Len(pieces)} \ {""}

BeginsWithOneOf(statement, keywords) ==
    \E i \in 1..Len(keywords) : StartsAt(upper(statement), 1, keywords[i])

\* C24: is_read_only is True when the query consists solely of statements
\* beginning with SELECT, SHOW, DESCRIBE or EXPLAIN, and False for every
\* query that contains a statement beginning with DROP, DELETE, TRUNCATE,
\* ALTER, CREATE, INSERT or UPDATE.
C24_ReadOnlyOnlyForReads ==
    \A k \in Callers :
        frames[k].pc = "read_only_checked" =>
            LET statements == StatementsOf(frames[k].sql)
            IN  /\ (statements # {} /\ \A st \in statements : BeginsWithOneOf(st, READ_KEYWORDS))
                       => frames[k].allowed
                /\ (\E st \in statements : BeginsWithOneOf(st, DANGEROUS_KEYWORDS))
                       => ~frames[k].allowed

\* the positions of the '.' of a file name
DotsOf(filename) == {i \in 1..Len(filename) : Ch(filename, i) = "."}

\* the text after the last '.', lower-cased, with its '.'
ExtensionOf(filename) ==
    lower(SubSeq(filename, Max(DotsOf(filename)), Len(filename)))

AllowedFor(file_type) ==
    IF file_type = "text" THEN {".txt", ".sql", ".ddl"}
    ELSE IF file_type = "image" THEN {".png", ".jpg", ".jpeg", ".bmp", ".tiff"}
    ELSE {}

\* C25: is_allowed_extension is True exactly when the file name has an
\* extension, the text after its last '.', that lower-cased is in the
\* allowed list of the file type; a file name without '.' and an unknown
\* file type are not allowed.
C25_AllowedExactlyByExtension ==
    \A k \in Callers :
        frames[k].pc = "extension_checked" =>
            frames[k].allowed =
                (/\ DotsOf(frames[k].filename) # {}
                 /\ ExtensionOf(frames[k].filename) \in AllowedFor(frames[k].file_type))

\* C27: when test_connection, extract_from_database or
\* connect_and_extract_structure returns or raises, the inspector it used
\* is disconnected, engine and inspector are None, wherever the connection
\* attempt or the extraction failed or succeeded.
C27_NoPersistentConnection ==
    \A op \in ConnectOperations :
        backend.inspectors[op].pc = "done" =>
            ~backend.inspectors[op].engine /\ ~backend.inspectors[op].inspector

====
